---------------------------- MODULE Spec2Model ----------------------------
(***************************************************************************)
(* A model of the mino.rs falling-block engine:                            *)
(*   - the grid crate            (src/grid/src/lib.rs),                    *)
(*   - the input debouncer       (src/input_counter/src/lib.rs),           *)
(*   - the piece catalog / SRS   (src/mino_core/src/tetro.rs),             *)
(*   - the state-machine engine  (src/mino_core/src/common.rs).            *)
(*                                                                         *)
(* Representation.                                                         *)
(*   Option<T>        a sequence of length <= 1: <<>> is None, <<v>> Some  *)
(*   Cell<P>          a string: "Empty", "Garbage", or the piece name for  *)
(*                    Block(P)                                             *)
(*   Grid<C>          [num_cols, num_rows, cells]; cells is the Vec, the   *)
(*                    element of index i stored at position i + 1          *)
(*   bitflags         a set of flag names; the empty set is empty()        *)
(***************************************************************************)
EXTENDS Integers, Sequences, FiniteSets, TLC

VARIABLES
    \* ---- the engine (Game) ----
    config,      \* Game.config.params
    data,        \* Game.data : GameStateData
    state,       \* Game.state : the boxed GameState (its id and fields)
    panicked,    \* TRUE once a call of Game.update has panicked
    last,        \* history: the input and state id of the latest update call
    run2,        \* a second run of the same game (specification SpecTwin)
    \* ---- a single InputCounter driven directly ----
    ctr,         \* the InputCounter
    cargs,       \* history: the arguments InputCounter::new was called with
    cprev,       \* history: the counter before the latest call
    lastop,      \* history: the latest call
    ups,         \* history: update(true) calls since the latest update(false)
    hresults,    \* history: results of the handle() calls since the latest update
    disciplined, \* history: since the release, handle() followed every update once
    trues,       \* history: handle() calls that returned true since the release
    presses,     \* history: update(true) calls made on an Inactive counter
    \* ---- the grid primitives applied to drawn inputs ----
    grid,        \* the target grid
    sub,         \* the sub-grid argument
    ox, oy,      \* the offset argument
    gprev,       \* history: the grid before the latest operation
    calls        \* history: the grid operations called and what they returned

gameVars == <<config, data, state, panicked, last, run2>>
ctrVars  == <<ctr, cargs, cprev, lastop, ups, hresults, disciplined, trues,
             presses>>
gridVars == <<grid, sub, ox, oy, gprev, calls>>
vars     == <<gameVars, ctrVars, gridVars>>

\* Values of the variables a specification does not use.
IdleGame == /\ config = <<>> /\ data = <<>> /\ state = <<>>
            /\ panicked = FALSE /\ last = <<>> /\ run2 = <<>>
IdleCtr  == /\ ctr = <<>> /\ cargs = <<>> /\ cprev = <<>> /\ lastop = <<>>
            /\ ups = 0 /\ hresults = <<>> /\ disciplined = TRUE /\ trues = 0
            /\ presses = 0
IdleGrid == /\ grid = <<>> /\ sub = <<>> /\ ox = 0 /\ oy = 0
            /\ gprev = <<>> /\ calls = <<>>

None == <<>>
Some(v) == <<v>>
IsSome(o) == Len(o) = 1
Unwrap(o) == o[1]

Min(a, b) == IF a <= b THEN a ELSE b

(***************************************************************************)
(*                       grid crate: src/grid/src/lib.rs                   *)
(***************************************************************************)

\* IsEmpty for Cell<P> (common.rs) and for the tests' MyCell.
IsEmpty(c) == c = "Empty"

\* Grid::new with C::default() filling: the cells given, resized to cols * rows.
GridNew(cols, rows, cells) ==
    [num_cols |-> cols, num_rows |-> rows,
     cells |-> [i \in 1..(cols * rows) |->
                  IF i <= Len(cells) THEN cells[i] ELSE "Empty"]]

CellIndex(g, x, y) == x + y * g.num_cols

IsValidCellIndex(g, x, y) == x < g.num_cols /\ y < g.num_rows

Cell(g, x, y) == g.cells[CellIndex(g, x, y) + 1]

SetCell(g, x, y, c) == [g EXCEPT !.cells[CellIndex(g, x, y) + 1] = c]

\* for x in 0..num_cols { set_cell(x, y, cell) }
FillRow(g, y, c) ==
    [g EXCEPT !.cells = [i \in DOMAIN g.cells |->
        IF (i - 1) \div g.num_cols = y THEN c ELSE g.cells[i]]]

\* for y in y_range { fill_row(y, cell) }, y_range = lo..hi (hi excluded)
FillRows(g, lo, hi, c) ==
    [g EXCEPT !.cells = [i \in DOMAIN g.cells |->
        IF (i - 1) \div g.num_cols >= lo /\ (i - 1) \div g.num_cols < hi
        THEN c ELSE g.cells[i]]]

\* Swap (x, y) for (x, num_rows - 1 - y).
ReverseRows(g) ==
    [g EXCEPT !.cells = [i \in DOMAIN g.cells |->
        LET x == (i - 1) % g.num_cols
            y == (i - 1) \div g.num_cols
        IN  g.cells[x + (g.num_rows - 1 - y) * g.num_cols + 1]]]

\* Fault injection: a quarter turn the other way round.
Rotate1Ccw(g) ==
    [num_cols |-> g.num_rows, num_rows |-> g.num_cols,
     cells |-> [i \in 1..(g.num_cols * g.num_rows) |->
        LET nx == (i - 1) % g.num_rows
            ny == (i - 1) \div g.num_rows
        IN  g.cells[ny + (g.num_rows - 1 - nx) * g.num_cols + 1]]]

\* g.set_cell(y, num_cols - 1 - x, self.cell(x, y)) on a num_rows x num_cols grid
Rotate1(g) ==
    [num_cols |-> g.num_rows, num_rows |-> g.num_cols,
     cells |-> [i \in 1..(g.num_cols * g.num_rows) |->
        LET nx == (i - 1) % g.num_rows
            ny == (i - 1) \div g.num_rows
        IN  Cell(g, g.num_cols - 1 - ny, nx)]]

\* g.set_cell(num_cols - 1 - x, num_rows - 1 - y, self.cell(x, y))
Rotate2(g) ==
    [num_cols |-> g.num_cols, num_rows |-> g.num_rows,
     cells |-> [i \in 1..(g.num_cols * g.num_rows) |->
        LET nx == (i - 1) % g.num_cols
            ny == (i - 1) \div g.num_cols
        IN  Cell(g, g.num_cols - 1 - nx, g.num_rows - 1 - ny)]]

\* g.set_cell(num_rows - 1 - y, x, self.cell(x, y)) on a num_rows x num_cols grid
Rotate3(g) ==
    [num_cols |-> g.num_rows, num_rows |-> g.num_cols,
     cells |-> [i \in 1..(g.num_cols * g.num_rows) |->
        LET nx == (i - 1) % g.num_rows
            ny == (i - 1) \div g.num_rows
        IN  Cell(g, ny, g.num_rows - 1 - nx)]]

\* The row src_y copied onto dst_y; src_y overwritten when a placeholder is given.
MoveRow(g, src_y, dst_y, placeholder) ==
    [g EXCEPT !.cells = [i \in DOMAIN g.cells |->
        LET x == (i - 1) % g.num_cols
            y == (i - 1) \div g.num_cols
        IN  IF y = src_y /\ IsSome(placeholder) THEN Unwrap(placeholder)
            ELSE IF y = dst_y THEN Cell(g, x, src_y)
            ELSE g.cells[i]]]

IsRowFilled(g, y) == \A x \in 0..(g.num_cols - 1) : ~IsEmpty(Cell(g, x, y))

NumFilledRows(g) == Cardinality({y \in 0..(g.num_rows - 1) : IsRowFilled(g, y)})

\* The loop of pluck_filled_rows from row y on, n filled rows seen so far.
RECURSIVE PluckLoop(_, _, _)
PluckLoop(g, y, n) ==
    IF y >= g.num_rows THEN [grid |-> g, n |-> n]
    ELSE IF IsRowFilled(g, y) THEN PluckLoop(g, y + 1, n + 1)
    ELSE LET g1 == IF n > 0 THEN MoveRow(g, y, y - n, None) ELSE g
         IN  IF y = g.num_rows - n THEN [grid |-> g1, n |-> n]
             ELSE PluckLoop(g1, y + 1, n)

\* pluck_filled_rows: [grid |-> the grid afterwards, n |-> the value returned]
PluckFilledRows(g, placeholder) ==
    LET r == PluckLoop(g, 0, 0)
    IN  IF IsSome(placeholder)
        THEN [grid |-> FillRows(r.grid, g.num_rows - r.n, g.num_rows,
                                Unwrap(placeholder)),
              n |-> r.n]
        ELSE r

\* The non-empty cells of sub, as <<sub_x, sub_y>>.
SolidCells(s) ==
    {c \in (0..(s.num_cols - 1)) \X (0..(s.num_rows - 1)) :
        ~IsEmpty(Cell(s, c[1], c[2]))}

OutOfGrid(g, x, y) == x < 0 \/ g.num_cols <= x \/ y < 0 \/ g.num_rows <= y

\* check_overlay: the flags accumulated over the non-empty cells of sub.
CheckOverlay(g, x, y, s) ==
    LET solid == SolidCells(s)
    IN  (IF \E c \in solid : OutOfGrid(g, x + c[1], y + c[2])
         THEN {"OVERFLOW"} ELSE {})
        \cup
        (IF \E c \in solid : /\ ~OutOfGrid(g, x + c[1], y + c[2])
                             /\ ~IsEmpty(Cell(g, x + c[1], y + c[2]))
         THEN {"OVERLAP"} ELSE {})

\* Fault injection: a scan that does not skip the empty cells of sub.
RECURSIVE CheckOverlayLoopNoSkip(_, _, _, _, _, _)
CheckOverlayLoopNoSkip(g, x, y, s, i, result) ==
    IF i >= s.num_cols * s.num_rows THEN result
    ELSE LET self_x == x + (i % s.num_cols)
             self_y == y + (i \div s.num_cols)
         IN  IF OutOfGrid(g, self_x, self_y)
             THEN CheckOverlayLoopNoSkip(g, x, y, s, i + 1,
                                         result \cup {"OVERFLOW"})
             ELSE IF ~IsEmpty(Cell(g, self_x, self_y))
             THEN CheckOverlayLoopNoSkip(g, x, y, s, i + 1,
                                         result \cup {"OVERLAP"})
             ELSE CheckOverlayLoopNoSkip(g, x, y, s, i + 1, result)

\* check_overlay as written: the two nested loops from the cell of sub with
\* sub_y = i / num_cols and sub_x = i % num_cols on, the flags set so far in
\* result.
RECURSIVE CheckOverlayLoop(_, _, _, _, _, _)
CheckOverlayLoop(g, x, y, s, i, result) ==
    IF i >= s.num_cols * s.num_rows THEN result
    ELSE LET sub_x == i % s.num_cols
             sub_y == i \div s.num_cols
             self_x == x + sub_x
             self_y == y + sub_y
         IN  IF IsEmpty(Cell(s, sub_x, sub_y))
             THEN CheckOverlayLoop(g, x, y, s, i + 1, result)
             ELSE IF OutOfGrid(g, self_x, self_y)
             THEN CheckOverlayLoop(g, x, y, s, i + 1, result \cup {"OVERFLOW"})
             ELSE IF ~IsEmpty(Cell(g, self_x, self_y))
             THEN CheckOverlayLoop(g, x, y, s, i + 1, result \cup {"OVERLAP"})
             ELSE CheckOverlayLoop(g, x, y, s, i + 1, result)

\* Fault injection: an overlay that also writes the cells it reports as
\* overlapped.
RECURSIVE OverlayLoopOverwrites(_, _, _, _, _, _)
OverlayLoopOverwrites(g, x, y, s, i, result) ==
    IF i >= s.num_cols * s.num_rows THEN [grid |-> g, result |-> result]
    ELSE LET sub_x == i % s.num_cols
             sub_y == i \div s.num_cols
             self_x == x + sub_x
             self_y == y + sub_y
         IN  IF IsEmpty(Cell(s, sub_x, sub_y))
             THEN OverlayLoopOverwrites(g, x, y, s, i + 1, result)
             ELSE IF OutOfGrid(g, self_x, self_y)
             THEN OverlayLoopOverwrites(g, x, y, s, i + 1,
                                        result \cup {"OVERFLOW"})
             ELSE OverlayLoopOverwrites(
                      SetCell(g, self_x, self_y, Cell(s, sub_x, sub_y)),
                      x, y, s, i + 1,
                      IF ~IsEmpty(Cell(g, self_x, self_y))
                      THEN result \cup {"OVERLAP"} ELSE result)

\* overlay as written: the two nested loops from the cell of sub with
\* sub_y = i / num_cols and sub_x = i % num_cols on, g the grid and result
\* the flags so far: [grid |-> the grid afterwards, result |-> the flags].
RECURSIVE OverlayLoop(_, _, _, _, _, _)
OverlayLoop(g, x, y, s, i, result) ==
    IF i >= s.num_cols * s.num_rows THEN [grid |-> g, result |-> result]
    ELSE LET sub_x == i % s.num_cols
             sub_y == i \div s.num_cols
             self_x == x + sub_x
             self_y == y + sub_y
         IN  IF IsEmpty(Cell(s, sub_x, sub_y))
             THEN OverlayLoop(g, x, y, s, i + 1, result)
             ELSE IF OutOfGrid(g, self_x, self_y)
             THEN OverlayLoop(g, x, y, s, i + 1, result \cup {"OVERFLOW"})
             ELSE IF ~IsEmpty(Cell(g, self_x, self_y))
             THEN OverlayLoop(g, x, y, s, i + 1, result \cup {"OVERLAP"})
             ELSE OverlayLoop(SetCell(g, self_x, self_y, Cell(s, sub_x, sub_y)),
                              x, y, s, i + 1, result)

\* Fault injection: an overlay that reports but writes no cell.
OverlayNoWrite(g, x, y, s) == [grid |-> g, result |-> CheckOverlay(g, x, y, s)]

\* overlay: [grid |-> the grid afterwards, result |-> the flags returned].
Overlay(g, x, y, s) == OverlayLoop(g, x, y, s, 0, {})

\* check_overlay_toward: the loop from step n at (tx, ty).
RECURSIVE CheckOverlayTowardLoop(_, _, _, _, _, _, _)
CheckOverlayTowardLoop(g, tx, ty, s, dx, dy, n) ==
    LET r == CheckOverlay(g, tx, ty, s)
    IN  IF r # {} THEN [n |-> n, result |-> r]
        ELSE CheckOverlayTowardLoop(g, tx + dx, ty + dy, s, dx, dy, n + 1)

\* Fault injection: a search that takes its first step before it checks.
CheckOverlayTowardStepsFirst(g, x, y, s, dx, dy) ==
    CheckOverlayTowardLoop(g, x + dx, y + dy, s, dx, dy, 1)

CheckOverlayToward(g, x, y, s, dx, dy) ==
    CheckOverlayTowardLoop(g, x, y, s, dx, dy, 0)

\* bottom_padding / top_padding: the count of empty rows at each end.
BottomPadding(g) ==
    LET solidRows == {y \in 0..(g.num_rows - 1) :
                        \E x \in 0..(g.num_cols - 1) : ~IsEmpty(Cell(g, x, y))}
    IN  IF solidRows = {} THEN g.num_rows
        ELSE CHOOSE y \in solidRows : \A z \in solidRows : y <= z

TopPadding(g) ==
    LET solidRows == {y \in 0..(g.num_rows - 1) :
                        \E x \in 0..(g.num_cols - 1) : ~IsEmpty(Cell(g, x, y))}
    IN  IF solidRows = {} THEN g.num_rows
        ELSE g.num_rows - 1 - (CHOOSE y \in solidRows : \A z \in solidRows : z <= y)

NumNonEmpty(g) == Cardinality({i \in DOMAIN g.cells : ~IsEmpty(g.cells[i])})

AllGrids(cols, rows, cellSet) ==
    {[num_cols |-> cols, num_rows |-> rows, cells |-> c] :
        c \in [1..(cols * rows) -> cellSet]}

(***************************************************************************)
(* Specification SpecOverlay: check_overlay and overlay applied to every   *)
(* grid, sub-grid and offset within the bounds.  calls is the history of   *)
(* the calls made, the latest first.                                       *)
(***************************************************************************)
OvCols  == 2
OvRows  == 2
SubCols == 2
SubRows == 1

Call(op, arg, result) == [op |-> op, arg |-> arg, result |-> result]

InitOverlay ==
    /\ IdleGame /\ IdleCtr
    /\ grid \in AllGrids(OvCols, OvRows, {"Empty", "Garbage"})
    /\ sub \in AllGrids(SubCols, SubRows, {"Empty", "T"})
    /\ ox \in (0 - 1)..(OvCols - 1)
    /\ oy \in (0 - 1)..(OvRows - 1)
    /\ calls = <<>> /\ gprev = grid

DoCheckOverlay ==
    /\ Len(calls) \in {0, 2}
    /\ calls' = <<Call("check_overlay", None,
                        CheckOverlayLoop(grid, ox, oy, sub, 0, {}))>>
                   \o calls
    /\ UNCHANGED <<grid, gprev, sub, ox, oy>>

DoOverlay ==
    /\ Len(calls) = 1
    /\ LET r == Overlay(grid, ox, oy, sub)
       IN  /\ grid' = r.grid
           /\ calls' = <<Call("overlay", None, r.result)>> \o calls
    /\ gprev' = grid
    /\ UNCHANGED <<sub, ox, oy>>

NextOverlay == (DoCheckOverlay \/ DoOverlay) /\ UNCHANGED <<gameVars, ctrVars>>

SpecOverlay == InitOverlay /\ [][NextOverlay]_vars

\* The run check_overlay, overlay, check_overlay has been made.
RoundTripDone ==
    /\ Len(calls) = 3
    /\ calls[1].op = "check_overlay" /\ calls[2].op = "overlay"
    /\ calls[3].op = "check_overlay"

\* C9 as stated: for any grid, offset and sub-grid whose check_overlay is
\* empty, overlay followed by check_overlay yields OVERLAP.
C9_RoundTripAnySub ==
    (RoundTripDone /\ calls[3].result = {}) => calls[1].result = {"OVERLAP"}

\* C9 amended: for any grid, offset and sub-grid that has at least one
\* non-empty cell and whose check_overlay is empty, overlay followed by
\* check_overlay yields exactly OVERLAP; with no non-empty cell in the
\* sub-grid the second check is empty again.
C9_RoundTrip ==
    (RoundTripDone /\ calls[3].result = {}) =>
        /\ SolidCells(sub) # {} => calls[1].result = {"OVERLAP"}
        /\ SolidCells(sub) = {} => calls[1].result = {}

C9_Witness ==
    /\ RoundTripDone /\ calls[3].result = {} /\ calls[2].result = {}
    /\ Cardinality(SolidCells(sub)) = 2
    /\ NumNonEmpty(gprev) > 0
    /\ calls[1].result = {"OVERLAP"}

\* Some non-empty cell of sub maps outside the grid / onto a non-empty cell
\* of the grid, with sub at the offset (x, y).
MapsOutside(g, x, y, s) ==
    \E c \in SolidCells(s) : OutOfGrid(g, x + c[1], y + c[2])

MapsOntoSolid(g, x, y, s) ==
    \E c \in SolidCells(s) :
        /\ ~OutOfGrid(g, x + c[1], y + c[2])
        /\ ~IsEmpty(Cell(g, x + c[1], y + c[2]))

\* C17: every check_overlay(x, y, sub) returns OVERFLOW iff some non-empty
\* cell of sub maps outside the grid and OVERLAP iff some non-empty cell of
\* sub maps onto an in-bounds non-empty cell of the grid (the empty cells of
\* sub contribute nothing, both flags may come from one call), and it leaves
\* the grid as it was.
C17_CheckOverlayFlags ==
    [][(calls' # calls /\ calls'[1].op = "check_overlay") =>
          /\ ("OVERFLOW" \in calls'[1].result <=> MapsOutside(grid, ox, oy, sub))
          /\ ("OVERLAP" \in calls'[1].result <=> MapsOntoSolid(grid, ox, oy, sub))
          /\ calls'[1].result \subseteq {"OVERFLOW", "OVERLAP"}
          /\ grid' = grid]_vars

\* One call that sets both flags.
C17_Witness ==
    /\ Len(calls) = 1 /\ calls[1].op = "check_overlay"
    /\ calls[1].result = {"OVERFLOW", "OVERLAP"}
    /\ Cardinality(SolidCells(sub)) = 2

\* The cell (gx, gy) of the grid is the target of a non-empty cell of sub at
\* the offset (x, y).
SubCovers(s, x, y, gx, gy) ==
    /\ gx - x >= 0 /\ gx - x < s.num_cols
    /\ gy - y >= 0 /\ gy - y < s.num_rows
    /\ ~IsEmpty(Cell(s, gx - x, gy - y))

\* C32: overlay(x, y, sub) returns the flags check_overlay(x, y, sub) returns
\* on the grid before the call, writes each non-empty cell of sub that maps
\* onto an in-bounds empty cell, and leaves every other cell of the grid as
\* it was, the cells it reports as overlapped included.
C32_OverlayEffect ==
    [][(calls' # calls /\ calls'[1].op = "overlay") =>
          /\ calls'[1].result = calls[1].result
          /\ calls'[1].result = CheckOverlayLoop(grid, ox, oy, sub, 0, {})
          /\ grid'.num_cols = grid.num_cols /\ grid'.num_rows = grid.num_rows
          /\ \A gx \in 0..(grid.num_cols - 1), gy \in 0..(grid.num_rows - 1) :
                Cell(grid', gx, gy) =
                    IF SubCovers(sub, ox, oy, gx, gy) /\ IsEmpty(Cell(grid, gx, gy))
                    THEN Cell(sub, gx - ox, gy - oy)
                    ELSE Cell(grid, gx, gy)]_vars

\* An overlay that writes one cell of sub and reports the other as overlapped.
C32_Witness ==
    /\ Len(calls) = 2 /\ calls[1].op = "overlay"
    /\ calls[1].result = {"OVERLAP"}
    /\ NumNonEmpty(grid) = NumNonEmpty(gprev) + 1
    /\ \E gx \in 0..(OvCols - 1), gy \in 0..(OvRows - 1) :
          /\ SubCovers(sub, ox, oy, gx, gy)
          /\ Cell(gprev, gx, gy) = "Garbage" /\ Cell(grid, gx, gy) = "Garbage"

(***************************************************************************)
(* Specification SpecToward: check_overlay_toward applied to every grid,   *)
(* sub-grid with a non-empty cell, offset and direction within the bounds. *)
(***************************************************************************)
TwCols    == 2
TwRows    == 2
TwSubCols == 1
TwSubRows == 1

InitToward ==
    /\ IdleGame /\ IdleCtr
    /\ grid \in AllGrids(TwCols, TwRows, {"Empty", "Garbage"})
    /\ sub \in AllGrids(TwSubCols, TwSubRows, {"Empty", "T"})
    /\ ox \in (0 - 1)..(TwCols - 1)
    /\ oy \in (0 - 1)..(TwRows - 1)
    /\ calls = <<>> /\ gprev = grid

\* check_overlay_toward(ox, oy, sub, dx, dy).  The assert!(dx != 0 || dy != 0)
\* of the code bounds the directions; with no non-empty cell in sub the loop
\* of the code never ends, so such a sub is not passed.
DoCheckOverlayToward(dx, dy) ==
    /\ calls = <<>>
    /\ dx # 0 \/ dy # 0
    /\ SolidCells(sub) # {}
    /\ calls' = <<Call("check_overlay_toward", <<dx, dy>>,
                        CheckOverlayToward(grid, ox, oy, sub, dx, dy))>>
    /\ UNCHANGED <<grid, gprev, sub, ox, oy>>

NextToward ==
    /\ \E dx \in (0 - 1)..1, dy \in (0 - 1)..1 : DoCheckOverlayToward(dx, dy)
    /\ UNCHANGED <<gameVars, ctrVars>>

SpecToward == InitToward /\ [][NextToward]_vars

\* C18: for a sub-grid with a non-empty cell and (dx, dy) # (0, 0),
\* check_overlay_toward(x, y, sub, dx, dy) returns the least k >= 0 for which
\* check_overlay(x + k*dx, y + k*dy, sub) is non-empty, and the flags of that
\* check; k is 0 when the start position collides.
C18_FirstCollision ==
    (calls # <<>> /\ calls[1].op = "check_overlay_toward") =>
        LET dx == calls[1].arg[1]
            dy == calls[1].arg[2]
            k  == calls[1].result.n
        IN  /\ k >= 0
            /\ calls[1].result.result # {}
            /\ calls[1].result.result =
                   CheckOverlay(grid, ox + k * dx, oy + k * dy, sub)
            /\ \A j \in 0..(k - 1) :
                   CheckOverlay(grid, ox + j * dx, oy + j * dy, sub) = {}
            /\ CheckOverlay(grid, ox, oy, sub) # {} => k = 0

\* A diagonal search that leaves a free start position and ends on an
\* occupied cell.
C18_Witness ==
    /\ Len(calls) = 1 /\ calls[1].op = "check_overlay_toward"
    /\ calls[1].arg = <<1, 0 - 1>>
    /\ calls[1].result.n = 1
    /\ calls[1].result.result = {"OVERLAP"}

(***************************************************************************)
(* Specification SpecPluck: pluck_filled_rows applied to every grid within *)
(* the bounds.                                                             *)
(***************************************************************************)
PluckCols == 2
PluckRows == 4

InitPluck ==
    /\ IdleGame /\ IdleCtr
    /\ grid \in AllGrids(PluckCols, PluckRows, {"Empty", "Garbage"})
    /\ sub = <<>> /\ ox = 0 /\ oy = 0
    /\ calls = <<>> /\ gprev = grid

DoPluckFilledRows(placeholder) ==
    /\ calls = <<>>
    /\ LET r == PluckFilledRows(grid, placeholder)
       IN  /\ grid' = r.grid
           /\ calls' = <<Call("pluck_filled_rows", placeholder, r.n)>>
    /\ gprev' = grid
    /\ UNCHANGED <<sub, ox, oy>>

NextPluck ==
    /\ \E placeholder \in {None, Some("Empty"), Some("Garbage")} :
          DoPluckFilledRows(placeholder)
    /\ UNCHANGED <<gameVars, ctrVars>>

SpecPluck == InitPluck /\ [][NextPluck]_vars

\* C10: after pluck_filled_rows returns n (called as the engine calls it, with
\* the Empty placeholder) the grid holds exactly (non-empty cells before) -
\* n * num_cols non-empty cells, all of them in rows [0, num_rows - n).
C10_LineClearConservation ==
    (calls # <<>> /\ calls[1].op = "pluck_filled_rows"
                  /\ calls[1].arg = Some("Empty")) =>
        LET n == calls[1].result
        IN  /\ NumNonEmpty(grid) = NumNonEmpty(gprev) - n * grid.num_cols
            /\ \A x \in 0..(grid.num_cols - 1), y \in 0..(grid.num_rows - 1) :
                  ~IsEmpty(Cell(grid, x, y)) => y < grid.num_rows - n

\* The rows of g that are not completely filled, bottom (row 0) first.
RECURSIVE UnfilledRowsFrom(_, _)
UnfilledRowsFrom(g, y) ==
    IF y >= g.num_rows THEN <<>>
    ELSE (IF IsRowFilled(g, y) THEN <<>>
          ELSE <<[x \in 0..(g.num_cols - 1) |-> Cell(g, x, y)]>>)
         \o UnfilledRowsFrom(g, y + 1)

\* C33: pluck_filled_rows with an empty placeholder returns the number of
\* completely filled rows the grid held before the call; afterwards the rows
\* that were not filled appear in their original relative order from row 0
\* on, the top n rows hold the placeholder, and no row is completely filled.
C33_PluckCompacts ==
    (calls # <<>> /\ calls[1].op = "pluck_filled_rows"
                  /\ calls[1].arg = Some("Empty")) =>
        LET n    == calls[1].result
            kept == UnfilledRowsFrom(gprev, 0)
        IN  /\ n = Cardinality({y \in 0..(gprev.num_rows - 1) :
                                   IsRowFilled(gprev, y)})
            /\ Len(kept) = grid.num_rows - n
            /\ \A y \in 0..(grid.num_rows - 1), x \in 0..(grid.num_cols - 1) :
                  Cell(grid, x, y) = IF y < Len(kept) THEN kept[y + 1][x]
                                     ELSE "Empty"
            /\ \A y \in 0..(grid.num_rows - 1) : ~IsRowFilled(grid, y)

(***************************************************************************)
(* Specification SpecTurn: rotate1, rotate2 and rotate3 applied, up to     *)
(* MaxTurns times in a row, to every grid within the bounds.               *)
(***************************************************************************)
TurnCols == 3
TurnRows == 2
MaxTurns == 2

InitTurn ==
    /\ IdleGame /\ IdleCtr
    /\ grid \in AllGrids(TurnCols, TurnRows, {"Empty", "Garbage"})
    /\ sub = <<>> /\ ox = 0 /\ oy = 0
    /\ calls = <<>> /\ gprev = grid

\* grid = grid.rotate1(), rotate2() or rotate3()
DoRotate(op, rotated) ==
    /\ Len(calls) < MaxTurns
    /\ grid' = rotated
    /\ gprev' = grid
    /\ calls' = <<Call(op, None, None)>> \o calls
    /\ UNCHANGED <<sub, ox, oy>>

NextTurn ==
    /\ \/ DoRotate("rotate1", Rotate1(grid))
       \/ DoRotate("rotate2", Rotate2(grid))
       \/ DoRotate("rotate3", Rotate3(grid))
    /\ UNCHANGED <<gameVars, ctrVars>>

SpecTurn == InitTurn /\ [][NextTurn]_vars

\* r is g turned by 90 degrees clockwise, as the grid is displayed (top row
\* first): the dimensions are swapped and every row of g, read from left to
\* right, is a column of r read from top to bottom, the top row of g the
\* rightmost column of r.
IsQuarterTurnCw(g, r) ==
    /\ r.num_cols = g.num_rows /\ r.num_rows = g.num_cols
    /\ Len(r.cells) = Len(g.cells)
    /\ \A col \in 0..(g.num_cols - 1), fromTop \in 0..(g.num_rows - 1) :
          Cell(r, r.num_cols - 1 - fromTop, r.num_rows - 1 - col)
              = Cell(g, col, g.num_rows - 1 - fromTop)

\* C19: rotate1 is the 90-degree clockwise rotation with swapped dimensions,
\* rotate2 is rotate1 applied twice, rotate3 is rotate1 applied three times,
\* and rotate1 applied four times gives the original grid.
C19_Rotations ==
    /\ Rotate2(grid) = Rotate1(Rotate1(grid))
    /\ Rotate3(grid) = Rotate1(Rotate1(Rotate1(grid)))
    /\ Rotate1(Rotate1(Rotate1(Rotate1(grid)))) = grid
    /\ calls # <<>> =>
          CASE calls[1].op = "rotate1" -> IsQuarterTurnCw(gprev, grid)
            [] calls[1].op = "rotate2" -> grid = Rotate1(Rotate1(gprev))
            [] calls[1].op = "rotate3" -> grid = Rotate1(Rotate1(Rotate1(gprev)))

\* rotate1 applied to a grid that no turn maps onto itself.
C19_Witness ==
    /\ Len(calls) = 1 /\ calls[1].op = "rotate1"
    /\ gprev.num_cols # gprev.num_rows
    /\ NumNonEmpty(gprev) = 1 /\ ~IsEmpty(Cell(gprev, 0, 0))
    /\ ~IsEmpty(Cell(grid, 0, grid.num_rows - 1))

(***************************************************************************)
(*               input_counter crate: src/input_counter/src/lib.rs         *)
(***************************************************************************)

\* Fault injection: a constructor that keeps a first_delay of zero.
InputCounterNewKeepsZero(repeat, first_delay) ==
    [opt_repeat |-> repeat, opt_first_delay |-> first_delay,
     state |-> "Inactive", can_handle |-> FALSE, is_handled |-> FALSE, n |-> 0]

\* InputCounter::new: a first_delay of zero is replaced by repeat.
InputCounterNew(repeat, first_delay) ==
    [opt_repeat |-> repeat,
     opt_first_delay |-> IF first_delay = 0 THEN repeat ELSE first_delay,
     state |-> "Inactive", can_handle |-> FALSE, is_handled |-> FALSE, n |-> 0]

\* Fault injection: a release that forgets to reset n.
UpdateKeepsCount(c) ==
    [c EXCEPT !.state = "Inactive", !.can_handle = FALSE, !.is_handled = FALSE]

\* update(false): the early return of InputCounter::update.
UpdateReleased(c) ==
    [c EXCEPT !.state = "Inactive", !.can_handle = FALSE,
              !.is_handled = FALSE, !.n = 0]

\* The arms of the match on self.state in InputCounter::update.
\* Fault injection: an Inactive arm that sends one-shot counters to Delay too.
InactiveArmAlwaysDelays(c) == [c EXCEPT !.can_handle = TRUE, !.state = "Delay"]

InactiveArm(c) ==
    [c EXCEPT !.can_handle = TRUE,
              !.state = IF c.opt_repeat = 0 THEN "End" ELSE "Delay"]

DelayArm(c) ==
    LET n1 == c.n + 1
    IN  IF n1 = c.opt_first_delay
        THEN [c EXCEPT !.n = 0, !.can_handle = TRUE, !.state = "Repeat"]
        ELSE [c EXCEPT !.n = n1, !.can_handle = FALSE]

\* Fault injection: a Repeat arm that raises the trigger on every tick.
RepeatArmEveryTick(c) == [c EXCEPT !.n = 0, !.can_handle = TRUE]

RepeatArm(c) ==
    LET n1 == (c.n + 1) % c.opt_repeat
    IN  [c EXCEPT !.n = n1, !.can_handle = (n1 = 0)]

\* Fault injection: an End arm that raises the trigger again.
EndArmRearms(c) == [c EXCEPT !.can_handle = TRUE]

EndArm(c) == c

\* Fault injection: an update that lets time run on under a pending trigger.
InputCounterUpdateNoWait(c, active) ==
    IF ~active THEN UpdateReleased(c)
    ELSE LET c1 == [c EXCEPT !.is_handled = FALSE]
         IN  CASE c.state = "Inactive" -> InactiveArm(c1)
               [] c.state = "Delay"    -> DelayArm(c1)
               [] c.state = "Repeat"   -> RepeatArm(c1)
               [] c.state = "End"      -> EndArm(c1)

\* InputCounter::update
InputCounterUpdate(c, active) ==
    IF ~active THEN UpdateReleased(c)
    ELSE IF c.can_handle /\ ~c.is_handled THEN c
    ELSE LET c1 == [c EXCEPT !.is_handled = FALSE]
         IN  CASE c.state = "Inactive" -> InactiveArm(c1)
               [] c.state = "Delay"    -> DelayArm(c1)
               [] c.state = "Repeat"   -> RepeatArm(c1)
               [] c.state = "End"      -> EndArm(c1)

InputCounterCanHandle(c) == c.can_handle

\* Fault injection: a handle() that leaves can_handle set.
HandleKeepsTrigger(c) ==
    IF c.can_handle
    THEN [counter |-> [c EXCEPT !.is_handled = TRUE], result |-> TRUE]
    ELSE [counter |-> c, result |-> FALSE]

\* InputCounter::handle: [counter |-> the counter afterwards, result |-> returned]
InputCounterHandle(c) ==
    IF c.can_handle
    THEN [counter |-> [c EXCEPT !.can_handle = FALSE, !.is_handled = TRUE],
          result |-> TRUE]
    ELSE [counter |-> c, result |-> FALSE]

(***************************************************************************)
(* Specification SpecCounter: one InputCounter built with every pair of    *)
(* arguments within the bounds and driven by every interleaving of         *)
(* update(true), update(false) and handle().                               *)
(***************************************************************************)
MaxRepeat     == 2
MaxFirstDelay == 3
MaxUpdates    == 10
MaxHandles    == 2
MaxPresses    == 2

InitCounter ==
    /\ IdleGame /\ IdleGrid
    /\ cargs \in [repeat : 0..MaxRepeat, first_delay : 0..MaxFirstDelay]
    /\ ctr = InputCounterNew(cargs.repeat, cargs.first_delay)
    /\ cprev = ctr /\ lastop = "new"
    /\ ups = 0 /\ hresults = <<>> /\ disciplined = TRUE /\ trues = 0
    /\ presses = 0

\* c.update(true)
CtrUpdateHeld ==
    /\ ups < MaxUpdates
    /\ ups = 0 => presses < MaxPresses
    /\ ctr' = InputCounterUpdate(ctr, TRUE)
    /\ cprev' = ctr /\ lastop' = "update_true"
    /\ ups' = ups + 1
    /\ presses' = IF ups = 0 THEN presses + 1 ELSE presses
    /\ disciplined' = (disciplined /\ (ups = 0 \/ Len(hresults) = 1))
    /\ hresults' = <<>>
    /\ UNCHANGED <<cargs, trues>>

\* c.update(false)
CtrUpdateReleased ==
    /\ lastop # "update_false"
    /\ ctr' = InputCounterUpdate(ctr, FALSE)
    /\ cprev' = ctr /\ lastop' = "update_false"
    /\ ups' = 0 /\ trues' = 0 /\ disciplined' = TRUE /\ hresults' = <<>>
    /\ UNCHANGED <<cargs, presses>>

\* c.handle()
CtrHandle ==
    /\ Len(hresults) < MaxHandles
    /\ LET r == InputCounterHandle(ctr)
       IN  /\ ctr' = r.counter
           /\ hresults' = Append(hresults, r.result)
           /\ trues' = IF r.result THEN trues + 1 ELSE trues
    /\ cprev' = ctr /\ lastop' = "handle"
    /\ disciplined' = (disciplined /\ hresults = <<>>)
    /\ UNCHANGED <<cargs, ups, presses>>

NextCounter ==
    /\ CtrUpdateHeld \/ CtrUpdateReleased \/ CtrHandle
    /\ UNCHANGED <<gameVars, gridVars>>

SpecCounter == InitCounter /\ [][NextCounter]_vars

\* The first delay in effect: a first_delay of 0 is treated as repeat.
EffectiveDelay == IF cargs.first_delay = 0 THEN cargs.repeat ELSE cargs.first_delay

\* C5: a counter with repeat r >= 1 and first delay d (0 treated as r), held
\* continuously from Inactive with handle() called once after every update,
\* returns true from handle() exactly on updates 1, 1+d, 1+d+r, 1+d+2r, ...
C5_TriggerSchedule ==
    (cargs.repeat >= 1 /\ disciplined /\ ups >= 1 /\ Len(hresults) = 1) =>
        (hresults[1] <=>
            \/ ups = 1
            \/ /\ ups >= 1 + EffectiveDelay
               /\ (ups - 1 - EffectiveDelay) % cargs.repeat = 0)

C5_Witness ==
    /\ cargs = [repeat |-> 2, first_delay |-> 3]
    /\ disciplined /\ ups = 10 /\ hresults = <<TRUE>> /\ trues = 5

\* C6: of two consecutive handle() calls with no update between them at most
\* one returns true; the second returns false and leaves the counter unchanged.
C6_HandleIdempotent ==
    Len(hresults) >= 2 =>
        /\ hresults[Len(hresults)] = FALSE
        /\ ctr = cprev
        /\ Cardinality({i \in 1..Len(hresults) : hresults[i]}) <= 1

C6_Witness ==
    /\ lastop = "handle" /\ Len(hresults) = 2
    /\ hresults[1] = TRUE /\ hresults[2] = FALSE

\* C7: a one-shot counter (repeat = 0) triggers exactly once per press: while
\* the bit stays held the trigger is pending from the first update until it
\* is handled and never again, so handle() returns true at most once; a
\* trigger is pending only in a press that began, after a release, with an
\* update with the bit set and that has not triggered yet.
C7_OneShot ==
    cargs.repeat = 0 =>
        /\ trues <= 1
        /\ ups = 0 => (~ctr.can_handle /\ trues = 0)
        /\ ups >= 1 => (ctr.can_handle <=> trues = 0)

C7_Witness ==
    /\ cargs.repeat = 0 /\ presses = 2 /\ trues = 1 /\ ups >= 3
    /\ ~ctr.can_handle /\ lastop = "update_true"

\* C8: from every counter state an update with the bit clear leaves the
\* counter Inactive with can_handle = false, is_handled = false and n = 0.
C8_ReleaseResets ==
    lastop = "update_false" =>
        /\ ctr.state = "Inactive" /\ ctr.can_handle = FALSE
        /\ ctr.is_handled = FALSE /\ ctr.n = 0
        /\ ctr.opt_repeat = cprev.opt_repeat
        /\ ctr.opt_first_delay = cprev.opt_first_delay

C8_Witness ==
    /\ lastop = "update_false"
    /\ cprev.state = "Repeat" /\ cprev.n > 0 /\ cprev.is_handled = FALSE

\* C30: an update with the bit held that finds a trigger pending (raised and
\* not taken by handle() since) changes nothing in the counter, whatever its
\* state; an update with the bit held that finds none pending in Delay or
\* Repeat moves the counter on.
C30_PendingFreezes ==
    lastop = "update_true" =>
        /\ cprev.can_handle => (~cprev.is_handled /\ ctr = cprev)
        /\ (~cprev.can_handle /\ cprev.state \in {"Delay", "Repeat"}) =>
               ctr # cprev

\* A trigger raised in Repeat was left pending over two updates.
C30_Witness ==
    /\ lastop = "update_true" /\ cprev.can_handle /\ ctr = cprev
    /\ ctr.state = "Repeat" /\ ups >= 5 /\ trues = 1

\* C31 as stated: every update with the bit held that finds the counter in
\* Repeat advances n to (n + 1) mod repeat and sets can_handle = (n == 0),
\* whether or not handle() took the trigger raised before.
C31_RepeatAlwaysTicks ==
    (lastop = "update_true" /\ cprev.state = "Repeat") =>
        /\ ctr.n = (cprev.n + 1) % cprev.opt_repeat
        /\ ctr.can_handle = (ctr.n = 0)

\* C31, amended: an update with the bit held that finds the counter in Repeat
\* with no trigger pending advances n to (n + 1) mod repeat and sets
\* can_handle = (n == 0); one that finds the trigger raised before still
\* pending (not taken by handle()) changes nothing.
C31_RepeatTicks ==
    (lastop = "update_true" /\ cprev.state = "Repeat") =>
        IF cprev.can_handle THEN ctr = cprev
        ELSE /\ ctr.n = (cprev.n + 1) % cprev.opt_repeat
             /\ ctr.can_handle = (ctr.n = 0)
             /\ ctr.state = "Repeat"

\* A tick in Repeat that raises no trigger (repeat = 2, n from 0 to 1) after
\* the trigger before it was taken.
C31_Witness ==
    /\ lastop = "update_true" /\ cprev.state = "Repeat"
    /\ cprev.is_handled /\ cprev.n = 0 /\ ctr.n = 1 /\ ~ctr.can_handle
    /\ cargs.repeat = 2

\* C40: in every reachable counter state can_handle and is_handled are not
\* both true; n = 0 in Inactive and End, n < first_delay (as stored) in Delay
\* and n < repeat in Repeat; Delay and Repeat occur only with repeat # 0 and
\* End only with repeat = 0.
C40_CounterInvariant ==
    /\ ~(ctr.can_handle /\ ctr.is_handled)
    /\ ctr.state \in {"Inactive", "End"} => ctr.n = 0
    /\ ctr.state = "Delay" => (ctr.n < ctr.opt_first_delay /\ ctr.opt_repeat # 0)
    /\ ctr.state = "Repeat" => (ctr.n < ctr.opt_repeat /\ ctr.opt_repeat # 0)
    /\ ctr.state = "End" => ctr.opt_repeat = 0
    /\ ctr.opt_repeat = cargs.repeat
    /\ ctr.n >= 0

\* Repeat with n at its largest, and Delay with n at its largest before it.
C40_Witness ==
    /\ ctr.state = "Repeat" /\ ctr.n = ctr.opt_repeat - 1 /\ ctr.opt_repeat = 2
    /\ cprev.state = "Repeat" /\ ctr.opt_first_delay = 3 /\ presses = 2

(***************************************************************************)
(*       piece catalog and rotation system: src/mino_core/src/tetro.rs     *)
(*       rotation and falling piece:        src/mino_core/src/common.rs    *)
(***************************************************************************)

\* Rotation as i16: Cw0 = 0, Cw90 = 1, Cw180 = 2, Cw270 = 3.
Cw0   == 0
Cw90  == 1
Cw180 == 2
Cw270 == 3

\* Rust's %: the remainder takes the sign of the dividend.
RustRem(a, b) == IF a >= 0 THEN a % b ELSE 0 - ((0 - a) % b)

\* Rotation::rotate_cw: the value matched; a value outside 0..3 is the
\* panic!("never matched") arm.
RotateCw(rotation, n) == RustRem(rotation + n, 4)

RotationCw(rotation) == RotateCw(rotation, 1)

RotationCcw(rotation) == RotateCw(rotation, 0 - 1)

NeverMatched(rotation) == rotation \notin {Cw0, Cw90, Cw180, Cw270}

Pieces == {"I", "T", "O", "S", "Z", "J", "L"}

\* The grids of gen_piece_definitions as written, top row first.
PieceRows(piece) ==
    LET e == "Empty"
        b == piece
    IN  CASE piece = "I" -> <<e, e, e, e, e,
                              e, e, e, e, e,
                              e, b, b, b, b,
                              e, e, e, e, e,
                              e, e, e, e, e>>
          [] piece = "T" -> <<e, b, e,
                              b, b, b,
                              e, e, e>>
          [] piece = "O" -> <<e, b, b,
                              e, b, b,
                              e, e, e>>
          [] piece = "S" -> <<e, b, b,
                              b, b, e,
                              e, e, e>>
          [] piece = "Z" -> <<b, b, e,
                              e, b, b,
                              e, e, e>>
          [] piece = "J" -> <<b, e, e,
                              b, b, b,
                              e, e, e>>
          [] piece = "L" -> <<e, e, b,
                              b, b, b,
                              e, e, e>>

PieceSize(piece) == IF piece = "I" THEN 5 ELSE 3

\* gen_piece_definitions: per piece the grids of Cw0, Cw90, Cw180, Cw270.
PIECE_DEFINITIONS ==
    [piece \in Pieces |->
        LET g == ReverseRows(GridNew(PieceSize(piece), PieceSize(piece),
                                     PieceRows(piece)))
        IN  <<g, Rotate1(g), Rotate2(g), Rotate3(g)>>]

\* Piece::grid
PieceGrid(piece, rotation) == PIECE_DEFINITIONS[piece][rotation + 1]

OFFSET_DATA_I ==
    << << <<0, 0>>, <<0 - 1, 0>>, <<2, 0>>, <<0 - 1, 0>>, <<2, 0>> >>,
       << <<0 - 1, 0>>, <<0, 0>>, <<0, 0>>, <<0, 1>>, <<0, 0 - 2>> >>,
       << <<0 - 1, 1>>, <<1, 1>>, <<0 - 2, 1>>, <<1, 0>>, <<0 - 2, 0>> >>,
       << <<0, 1>>, <<0, 1>>, <<0, 1>>, <<0, 0 - 1>>, <<0, 2>> >> >>

OFFSET_DATA_O ==
    << << <<0, 0>> >>, << <<0, 0 - 1>> >>, << <<0 - 1, 0 - 1>> >>,
       << <<0 - 1, 0>> >> >>

OFFSET_DATA_JLSTZ ==
    << << <<0, 0>>, <<0, 0>>, <<0, 0>>, <<0, 0>>, <<0, 0>> >>,
       << <<0, 0>>, <<1, 0>>, <<1, 0 - 1>>, <<0, 2>>, <<1, 2>> >>,
       << <<0, 0>>, <<0, 0>>, <<0, 0>>, <<0, 0>>, <<0, 0>> >>,
       << <<0, 0>>, <<0 - 1, 0>>, <<0 - 1, 0 - 1>>, <<0, 2>>, <<0 - 1, 2>> >> >>

\* FallingPiece
FallingPiece(piece, x, y, rotation) ==
    [piece |-> piece, x |-> x, y |-> y, rotation |-> rotation]

FpGrid(fp) == PieceGrid(fp.piece, fp.rotation)

GridTopPadding(fp) == TopPadding(FpGrid(fp))

GridBottomPadding(fp) == BottomPadding(FpGrid(fp))

IsLockOut(fp, playfield) ==
    fp.y + GridBottomPadding(fp) >= playfield.visible_rows

IsPartialLockOut(fp, playfield) ==
    fp.y + (FpGrid(fp).num_rows - GridTopPadding(fp)) >= playfield.visible_rows

CanPutOnto(fp, playfield) ==
    CheckOverlay(playfield.grid, fp.x, fp.y, FpGrid(fp)) = {}

\* put_onto: [grid |-> the playfield grid afterwards, result |-> the flags]
PutOnto(fp, playfield) == Overlay(playfield.grid, fp.x, fp.y, FpGrid(fp))

\* droppable_rows: the n of check_overlay_toward, the first colliding step.
DroppableRows(fp, playfield) ==
    CheckOverlayToward(playfield.grid, fp.x, fp.y, FpGrid(fp), 0, 0 - 1).n

\* LossCondition::check
LossConditionCheck(cond, fp, playfield) ==
    IF "LOCK_OUT" \in cond /\ IsLockOut(fp, playfield) THEN cond
    ELSE IF "PARTIAL_LOCK_OUT" \in cond /\ IsPartialLockOut(fp, playfield)
    THEN cond
    ELSE {}

\* WorldRuleLogic::spawn_piece
SpawnPiece(piece, playfield) ==
    LET g == PieceGrid(piece, Cw0)
        top_pad == TopPadding(g)
        fp == FallingPiece(piece,
                           (playfield.grid.num_cols - g.num_cols) \div 2,
                           playfield.visible_rows - (g.num_rows - top_pad) + 1,
                           Cw0)
    IN  IF ~CanPutOnto(fp, playfield) THEN [fp EXCEPT !.y = fp.y + 1] ELSE fp

OffsetData(piece) ==
    CASE piece = "I" -> OFFSET_DATA_I
      [] piece = "O" -> OFFSET_DATA_O
      [] OTHER       -> OFFSET_DATA_JLSTZ

\* The loop of WorldRuleLogic::rotate from kick i on: Some(fp) or None.
RECURSIVE RotateLoop(_, _, _, _, _)
RotateLoop(fp, offsets1, offsets2, playfield, i) ==
    IF i > Len(offsets1) THEN None
    ELSE LET k == [fp EXCEPT !.x = fp.x + offsets1[i][1] - offsets2[i][1],
                             !.y = fp.y + offsets1[i][2] - offsets2[i][2]]
         IN  IF CanPutOnto(k, playfield) THEN Some(k)
             ELSE RotateLoop(fp, offsets1, offsets2, playfield, i + 1)

\* The rotation WorldRuleLogic::rotate asks for; NeverMatched of it is a panic.
RotateTarget(cw, falling_piece) ==
    IF cw THEN RotationCw(falling_piece.rotation)
    ELSE RotationCcw(falling_piece.rotation)

\* WorldRuleLogic::rotate, for a target rotation that matched.
Rotate(cw, falling_piece, playfield) ==
    LET fp == [falling_piece EXCEPT !.rotation = RotateTarget(cw, falling_piece)]
        offset_data == OffsetData(fp.piece)
    IN  RotateLoop(fp, offset_data[falling_piece.rotation + 1],
                   offset_data[fp.rotation + 1], playfield, 1)

(***************************************************************************)
(* Specification SpecSpin: WorldRuleLogic::rotate applied, up to MaxSpins  *)
(* times, to every piece kind in every rotation state, on an empty         *)
(* playfield and at least two cells away from every wall.  data holds the  *)
(* playfield and the falling piece, last the piece at the start and the    *)
(* calls made.                                                             *)
(***************************************************************************)
SpinCols == 10
SpinRows == 10
MaxSpins == 2

InitSpin ==
    /\ IdleCtr /\ IdleGrid
    /\ config = <<>> /\ state = <<>> /\ run2 = <<>>
    /\ panicked = FALSE
    /\ \E piece \in Pieces, rotation \in {Cw0, Cw90, Cw180, Cw270},
          x \in 2..(SpinCols - 7), y \in 2..(SpinRows - 7) :
          /\ data = [playfield |->
                        [visible_rows |-> SpinRows,
                         grid |-> GridNew(SpinCols, SpinRows, <<>>)],
                     falling_piece |-> Some(FallingPiece(piece, x, y, rotation))]
          /\ last = [start |-> FallingPiece(piece, x, y, rotation), ops |-> <<>>]

\* logic.rotate(cw, &falling_piece, &playfield), the piece replaced when the
\* call returns Some; the call panics when Rotation::rotate_cw does.
Spin(cw) ==
    /\ ~panicked
    /\ Len(last.ops) < MaxSpins
    /\ LET fp == Unwrap(data.falling_piece)
       IN  IF NeverMatched(RotateTarget(cw, fp))
           THEN panicked' = TRUE /\ data' = data
           ELSE LET rotated == Rotate(cw, fp, data.playfield)
                IN  /\ panicked' = FALSE
                    /\ data' = IF IsSome(rotated)
                               THEN [data EXCEPT !.falling_piece = rotated]
                               ELSE data
    /\ last' = [last EXCEPT !.ops = Append(last.ops, cw)]
    /\ UNCHANGED <<config, state, run2>>

NextSpin ==
    /\ Spin(TRUE) \/ Spin(FALSE)
    /\ UNCHANGED <<ctrVars, gridVars>>

SpecSpin == InitSpin /\ [][NextSpin]_vars

\* C11: for every piece kind and starting rotation, on an empty playfield
\* and far from the walls, rotating clockwise then counter-clockwise, and
\* counter-clockwise then clockwise, returns the falling piece to its
\* original (x, y, rotation); no rotation fails on the way.
C11_RotationReversible ==
    /\ ~panicked
    /\ (Len(last.ops) = 2 /\ last.ops[1] # last.ops[2]) =>
           data.falling_piece = Some(last.start)

\* Fault injection: a classification that never looks behind the piece.
TSpinOfNoBehind(fp, playfield) ==
    IF fp.piece # "T" THEN "None"
    ELSE LET blocked(x, y) ==
                 \/ x < 0 \/ y < 0
                 \/ ~(x < playfield.grid.num_cols /\ y < playfield.grid.num_rows)
                 \/ ~IsEmpty(Cell(playfield.grid, x, y))
             n == Cardinality({dd \in {0 - 1, 1} \X {0 - 1, 1} :
                                  blocked(fp.x + 1 + dd[1], fp.y + 1 + dd[2])})
         IN  IF n >= 3 THEN "Normal" ELSE "None"

\* WorldRuleLogic::rotate, the T-Spin tag of the accepted candidate fp.
TSpinOf(fp, playfield) ==
    IF fp.piece # "T" THEN "None"
    ELSE LET center == <<fp.x + 1, fp.y + 1>>
             blocked(x, y) ==
                 \/ x < 0 \/ y < 0
                 \/ ~(x < playfield.grid.num_cols /\ y < playfield.grid.num_rows)
                 \/ ~IsEmpty(Cell(playfield.grid, x, y))
             n == Cardinality({dd \in {0 - 1, 1} \X {0 - 1, 1} :
                                  blocked(center[1] + dd[1], center[2] + dd[2])})
             d == CASE fp.rotation = Cw0   -> <<0, 0 - 1>>
                    [] fp.rotation = Cw90  -> <<0 - 1, 0>>
                    [] fp.rotation = Cw180 -> <<0, 1>>
                    [] fp.rotation = Cw270 -> <<1, 0>>
         IN  IF n >= 3
             THEN IF blocked(center[1] + d[1], center[2] + d[2])
                  THEN IF n = 4 THEN "Normal" ELSE "Mini"
                  ELSE "Normal"
             ELSE "None"

(***************************************************************************)
(* Specification SpecKick: one call of WorldRuleLogic::rotate, in either   *)
(* direction, for every piece kind, rotation state and position that can   *)
(* be put onto a small playfield with garbage in any of the cells around   *)
(* (1, 1).  last holds the piece at the start and the call with what it    *)
(* returned.                                                               *)
(***************************************************************************)
KickCols == 4
KickRows == 4

KickPlayfields ==
    {[visible_rows |-> KickRows,
      grid |-> [num_cols |-> KickCols, num_rows |-> KickRows,
                cells |-> [i \in 1..(KickCols * KickRows) |->
                    IF <<(i - 1) % KickCols, (i - 1) \div KickCols>> \in garbage
                    THEN "Garbage" ELSE "Empty"]]] :
        garbage \in SUBSET (((0..2) \X (0..2)) \ {<<1, 1>>})}

InitKick ==
    /\ IdleCtr /\ IdleGrid
    /\ config = <<>> /\ state = <<>> /\ run2 = <<>>
    /\ panicked = FALSE
    /\ \E playfield \in KickPlayfields, piece \in Pieces,
          rotation \in {Cw0, Cw90, Cw180, Cw270},
          x \in (0 - 1)..1, y \in (0 - 1)..1 :
          /\ CanPutOnto(FallingPiece(piece, x, y, rotation), playfield)
          /\ data = [playfield |-> playfield,
                     falling_piece |-> Some(FallingPiece(piece, x, y, rotation))]
          /\ last = [start |-> FallingPiece(piece, x, y, rotation), ops |-> <<>>]

\* logic.rotate(cw, &falling_piece, &playfield) as GameStatePlay::update uses
\* it: the piece replaced when the call returns Some; the call panics when
\* Rotation::rotate_cw does.
Kick(cw) ==
    /\ ~panicked
    /\ last.ops = <<>>
    /\ LET fp == Unwrap(data.falling_piece)
       IN  IF NeverMatched(RotateTarget(cw, fp))
           THEN /\ panicked' = TRUE /\ data' = data
                /\ last' = [last EXCEPT !.ops = <<[cw |-> cw, result |-> None]>>]
           ELSE \E rotated \in {Rotate(cw, fp, data.playfield)} :
                    /\ panicked' = FALSE
                    /\ data' = IF IsSome(rotated)
                               THEN [data EXCEPT !.falling_piece = rotated]
                               ELSE data
                    /\ last' = [last EXCEPT !.ops =
                          <<[cw |-> cw,
                             result |->
                                 IF IsSome(rotated)
                                 THEN Some(<<Unwrap(rotated),
                                             TSpinOf(Unwrap(rotated),
                                                     data.playfield)>>)
                                 ELSE None]>>]
    /\ UNCHANGED <<config, state, run2>>

NextKick ==
    /\ Kick(TRUE) \/ Kick(FALSE)
    /\ UNCHANGED <<ctrVars, gridVars>>

SpecKick == InitKick /\ [][NextKick]_vars

\* The playfield cells the solid cells of the falling piece lie on.
PieceCells(fp) == {<<fp.x + c[1], fp.y + c[2]>> : c \in SolidCells(FpGrid(fp))}

\* The k-th kick candidate of the piece fp turned to the rotation target.
KickCandidate(fp, target, k) ==
    LET off_from == OffsetData(fp.piece)[fp.rotation + 1]
        off_to   == OffsetData(fp.piece)[target + 1]
    IN  [piece |-> fp.piece, rotation |-> target,
         x |-> fp.x + off_from[k][1] - off_to[k][1],
         y |-> fp.y + off_from[k][2] - off_to[k][2]]

\* The target rotation as the spec names it: cw() and ccw() in 0..3.
SpecTarget(cw, fp) == IF cw THEN (fp.rotation + 1) % 4 ELSE (fp.rotation + 3) % 4

\* C34: rotate() tries the kick candidates in index order and returns the
\* first one that can be put onto the playfield, with the same piece kind and
\* the target rotation (cw() for CW, ccw() for CCW); if no candidate fits it
\* returns None and the falling piece is left unchanged.
C34_FirstFittingKick ==
    last.ops # <<>> =>
        LET op     == last.ops[1]
            fp     == last.start
            target == SpecTarget(op.cw, fp)
            fits   == {k \in 1..Len(OffsetData(fp.piece)[fp.rotation + 1]) :
                          CanPutOnto(KickCandidate(fp, target, k), data.playfield)}
        IN  /\ ~panicked
            /\ IF fits = {}
               THEN op.result = None /\ data.falling_piece = Some(fp)
               ELSE LET k == CHOOSE i \in fits : \A j \in fits : i <= j
                    IN  /\ IsSome(op.result)
                        /\ Unwrap(op.result)[1] = KickCandidate(fp, target, k)
                        /\ data.falling_piece = Some(KickCandidate(fp, target, k))

\* C36: rotating an O piece, in either direction and from any rotation
\* state, has a single candidate, which occupies the playfield cells the
\* piece occupied before; the rotation succeeds and changes nothing but the
\* rotation and the origin of the mask.
C36_ODoesNotKick ==
    (last.ops # <<>> /\ last.start.piece = "O") =>
        LET op == last.ops[1]
            fp == last.start
        IN  /\ ~panicked
            /\ Len(OffsetData("O")[fp.rotation + 1]) = 1
            /\ IsSome(op.result)
            /\ LET r == Unwrap(op.result)[1]
               IN  /\ r.piece = "O" /\ r.rotation = SpecTarget(op.cw, fp)
                   /\ PieceCells(r) = PieceCells(fp)
                   /\ data.falling_piece = Some(r)

\* The cell <<x, y>> of the playfield is out of bounds or non-empty.
Occluded(playfield, c) ==
    \/ OutOfGrid(playfield.grid, c[1], c[2])
    \/ ~IsEmpty(Cell(playfield.grid, c[1], c[2]))

\* Of the 3x3 box of the piece fp on the playfield: the four diagonal
\* corners, and the cell behind the centre, which is the one cell next to
\* the centre that the mask of the T leaves empty, opposite the way it points.
BoxCorners(fp) == {<<fp.x + cx, fp.y + cy>> : cx \in {0, 2}, cy \in {0, 2}}

BoxBehind(fp) ==
    LET c == CHOOSE a \in {<<1, 0>>, <<0, 1>>, <<2, 1>>, <<1, 2>>} :
                 IsEmpty(Cell(FpGrid(fp), a[1], a[2]))
    IN  <<fp.x + c[1], fp.y + c[2]>>

\* C35: the T-Spin tag returned by an accepted rotation is None for every
\* piece other than T; for T, with c the number of the four diagonal corners
\* of its 3x3 box that are out of bounds or non-empty and b whether the cell
\* behind the centre is out of bounds or non-empty: c < 3 gives None, c >= 3
\* and not b gives Normal, c = 4 and b gives Normal, c = 3 and b gives Mini.
C35_TSpinTag ==
    (last.ops # <<>> /\ IsSome(last.ops[1].result)) =>
        LET fp  == Unwrap(last.ops[1].result)[1]
            tag == Unwrap(last.ops[1].result)[2]
            c   == Cardinality({k \in BoxCorners(fp) : Occluded(data.playfield, k)})
            b   == Occluded(data.playfield, BoxBehind(fp))
        IN  IF fp.piece # "T" THEN tag = "None"
            ELSE /\ c < 3 => tag = "None"
                 /\ (c >= 3 /\ ~b) => tag = "Normal"
                 /\ (c = 4 /\ b) => tag = "Normal"
                 /\ (c = 3 /\ b) => tag = "Mini"

\* A T turned into a slot with three corners and the cell behind it occluded.
C35_Witness ==
    /\ last.ops # <<>> /\ IsSome(last.ops[1].result)
    /\ Unwrap(last.ops[1].result)[1].piece = "T"
    /\ Unwrap(last.ops[1].result)[2] = "Mini"
    /\ Cardinality({k \in BoxCorners(Unwrap(last.ops[1].result)[1]) :
                       Occluded(data.playfield, k)}) = 3
    /\ Unwrap(last.ops[1].result)[1] #
           KickCandidate(last.start, Unwrap(last.ops[1].result)[1].rotation, 1)

(***************************************************************************)
(*                 the engine: src/mino_core/src/common.rs                 *)
(***************************************************************************)

\* Gravity is f32; the model counts it in halves of a cell per frame, which
\* f32 adds exactly.  GravityOne is the literal 1.0.
GravityOne == 2

\* Frames = u8
FramesMax == 255

\* v += 1 on Frames: with overflow checks 255 + 1 panics, without it wraps.
FramesAddOne(v, overflow_checks) ==
    IF v + 1 > FramesMax
    THEN [value |-> (v + 1) % (FramesMax + 1), panic |-> overflow_checks]
    ELSE [value |-> v + 1, panic |-> FALSE]

INPUTS == <<"HARD_DROP", "SOFT_DROP", "FIRM_DROP", "MOVE_LEFT", "MOVE_RIGHT",
            "ROTATE_CW", "ROTATE_CCW", "HOLD">>

InputKeys == {INPUTS[i] : i \in DOMAIN INPUTS}

\* Input::contains, for a single flag
InputContains(input, flag) == flag \in input

\* Contains<Input> of the iterator Play.update hands to InputManager::update
IteratorContains(input, key) == InputContains(input, key)

new_input_manager(das, arr) ==
    [key \in InputKeys |->
        IF key \in {"MOVE_LEFT", "MOVE_RIGHT"} THEN InputCounterNew(das, arr)
        ELSE InputCounterNew(0, 0)]

\* Fault injection: an update that stops at the first counter whose key is held.
RECURSIVE InputManagerUpdateStopsEarly(_, _, _)
InputManagerUpdateStopsEarly(mgr, input, order) ==
    IF order = <<>> THEN mgr
    ELSE LET i == Head(order)
             m1 == [mgr EXCEPT ![i] =
                        InputCounterUpdate(mgr[i], IteratorContains(input, i))]
         IN  IF IteratorContains(input, i) THEN m1
             ELSE InputManagerUpdateStopsEarly(m1, input, Tail(order))

\* InputManager::update; order is the order in which the HashMap yields its
\* entries.
RECURSIVE InputManagerUpdate(_, _, _)
InputManagerUpdate(mgr, input, order) ==
    IF order = <<>> THEN mgr
    ELSE LET i == Head(order)
         IN  InputManagerUpdate(
                 [mgr EXCEPT ![i] =
                     InputCounterUpdate(mgr[i], IteratorContains(input, i))],
                 input, Tail(order))

\* InputManager::can_handle
InputManagerCanHandle(mgr, key) ==
    IF key \in DOMAIN mgr THEN InputCounterCanHandle(mgr[key]) ELSE FALSE

\* InputManager::handle: [mgr |-> the manager afterwards, result |-> returned]
InputManagerHandle(mgr, key) ==
    IF key \in DOMAIN mgr
    THEN LET r == InputCounterHandle(mgr[key])
         IN  [mgr |-> [mgr EXCEPT ![key] = r.counter], result |-> r.result]
    ELSE [mgr |-> mgr, result |-> FALSE]

\* A boxed GameState: its id and the fields of the struct behind it (the
\* fields of the other structs at their defaults).
GameStateOf(id) ==
    [id |-> id, gravity_counter |-> 0, lock_delay_counter |-> 0,
     is_piece_held |-> FALSE, counter |-> 0, loss_cond |-> {}, reason |-> ""]

GameStateInit == GameStateOf("Init")

GameStatePlay == GameStateOf("Play")

GameStateLock == GameStateOf("Lock")

GameStateLineClear == GameStateOf("LineClear")

GameStateSpawnPiece == GameStateOf("SpawnPiece")

GameStateGameOver == GameStateOf("GameOver")

ByLockOut(cond) == [GameStateOf("GameOver") EXCEPT !.loss_cond = cond]

GameStateError(reason) == [GameStateOf("Error") EXCEPT !.reason = reason]

\* What enter and update hand back, with the data and the state as the call
\* left them: Ok(None), Ok(Some(next)), Err(reason), or a panic.
OkNone(d, self) ==
    [kind |-> "OkNone", data |-> d, self |-> self, next |-> self, reason |-> ""]

OkSome(d, self, next) ==
    [kind |-> "OkSome", data |-> d, self |-> self, next |-> next, reason |-> ""]

\* Fault injection: an error that is dropped, the state going on as it is.
ErrDropped(d, self, reason) == OkNone(d, self)

Err(d, self, reason) ==
    [kind |-> "Err", data |-> d, self |-> self, next |-> self, reason |-> reason]

Panic(d, self) ==
    [kind |-> "Panic", data |-> d, self |-> self, next |-> self, reason |-> ""]

\* Fault injection: a default update that feeds the debouncer.
DefaultUpdatePumps(self, d, cfg, input, order) ==
    OkNone([d EXCEPT !.input_mgr = InputManagerUpdate(d.input_mgr, input, order)],
           self)

\* GameState::update, the default of the trait (GameOver, Error)
DefaultUpdate(self, d, cfg, input, order) == OkNone(d, self)

\* Fault injection: an enter that hands SpawnPiece on to GameOver at once.
DefaultEnterSkipsSpawn(self, d, cfg) ==
    IF self.id = "SpawnPiece" THEN OkSome(d, self, GameStateGameOver)
    ELSE OkNone(d, self)

\* GameState::enter, the default of the trait
DefaultEnter(self, d, cfg) == OkNone(d, self)

\* Fault injection: an Init that always goes on to SpawnPiece.
InitUpdateAlwaysSpawns(self, d, cfg, input) ==
    OkSome(d, self, GameStateSpawnPiece)

\* GameStateInit::update
InitUpdate(self, d, cfg, input) ==
    IF IsSome(d.falling_piece) THEN OkSome(d, self, GameStatePlay)
    ELSE OkSome(d, self, GameStateSpawnPiece)

\* GameStatePlay::enter and GameStateLock::enter
EnterWithPiece(self, d, cfg) ==
    IF ~IsSome(d.falling_piece)
    THEN Err(d, self, "falling_piece should not be none")
    ELSE OkNone(d, self)

\* GameStateLock::lock
Lock(self, d, cfg) ==
    IF ~IsSome(d.falling_piece) THEN Panic(d, self)
    ELSE LET fp == Unwrap(d.falling_piece)
             r == LossConditionCheck(cfg.loss_condition, fp, d.playfield)
         IN  IF r # {} THEN OkSome(d, self, ByLockOut(r))
             ELSE LET put == PutOnto(fp, d.playfield)
                      d1 == [d EXCEPT !.playfield.grid = put.grid]
                  IN  IF put.result # {} THEN Panic(d1, self)
                      ELSE IF \E y \in 0..(d1.playfield.visible_rows - 1) :
                                  IsRowFilled(d1.playfield.grid, y)
                      THEN OkSome(d1, self, GameStateLineClear)
                      ELSE OkSome(d1, self, GameStateSpawnPiece)

\* GameStateLock::update
LockUpdate(self, d, cfg, input) == Lock(self, d, cfg)

\* GameStateLineClear::update
LineClearUpdate(self, d, cfg, input) ==
    LET d1 == IF self.counter = 0
              THEN [d EXCEPT !.playfield.grid =
                        PluckFilledRows(d.playfield.grid, Some("Empty")).grid]
              ELSE d
        c == FramesAddOne(self.counter, cfg.overflow_checks)
        self1 == [self EXCEPT !.counter = c.value]
    IN  IF c.panic THEN Panic(d1, self)
        ELSE IF self1.counter <= cfg.line_clear_delay THEN OkNone(d1, self1)
        ELSE OkSome(d1, self1, GameStateSpawnPiece)

\* GameStateSpawnPiece::update
SpawnPieceUpdate(self, d, cfg, input) == OkNone(d, self)

\* GameStatePlay::update, the tail from "let mut moved = fp.clone()" on: the
\* horizontal move, the rotation and the descent by gravity.
PlayMove(self, d, cfg, fp) ==
    LET playfield == d.playfield
        hl == InputManagerHandle(d.input_mgr, "MOVE_LEFT")
        hr == IF hl.result THEN hl ELSE InputManagerHandle(hl.mgr, "MOVE_RIGHT")
        dx == IF hl.result THEN 0 - 1 ELSE IF hr.result THEN 1 ELSE 0
        t  == [fp EXCEPT !.x = fp.x - dx]
        moved1 == IF dx # 0 /\ CanPutOnto(t, playfield) THEN t ELSE fp
        hcw  == InputManagerHandle(hr.mgr, "ROTATE_CW")
        hccw == IF hcw.result THEN hcw
                ELSE InputManagerHandle(hcw.mgr, "ROTATE_CCW")
        rotate == hcw.result \/ hccw.result
        d1 == [d EXCEPT !.input_mgr = hccw.mgr]
    IN  IF rotate /\ NeverMatched(RotateTarget(hcw.result, moved1))
        THEN Panic(d1, self)
        ELSE LET rotated == IF rotate THEN Rotate(hcw.result, moved1, playfield)
                            ELSE None
                 moved2 == IF IsSome(rotated) THEN Unwrap(rotated) ELSE moved1
                 n == DroppableRows(moved2, playfield)
                 self1 == IF n = 0 THEN [self EXCEPT !.gravity_counter = 0]
                          ELSE IF self.gravity_counter >= GravityOne
                          THEN [self EXCEPT !.gravity_counter = 0,
                                            !.lock_delay_counter = 0]
                          ELSE self
                 moved3 == IF n # 0 /\ self.gravity_counter >= GravityOne
                           THEN [moved2 EXCEPT !.y = moved2.y -
                                    Min(n, self.gravity_counter \div GravityOne)]
                           ELSE moved2
             IN  OkNone([d1 EXCEPT !.falling_piece = Some(moved3)], self1)

\* GameStatePlay::update, the part under "// Others"
PlayOthers(self, d, cfg, input, fp, num_droppable_rows) ==
    IF num_droppable_rows = 0
    THEN LET c == FramesAddOne(self.lock_delay_counter, cfg.overflow_checks)
             self1 == [self EXCEPT !.gravity_counter = 0,
                                   !.lock_delay_counter = c.value]
             should_lock ==
                 \/ self1.lock_delay_counter > cfg.lock_delay
                 \/ (cfg.lock_delay_cancel /\ InputContains(input, "SOFT_DROP"))
         IN  IF c.panic THEN Panic(d, self)
             ELSE IF should_lock THEN OkSome(d, self1, GameStateLock)
             ELSE PlayMove(self1, d, cfg, fp)
    ELSE IF InputContains(input, "FIRM_DROP")
    THEN OkNone([d EXCEPT !.falling_piece =
                    Some([fp EXCEPT !.y = fp.y - num_droppable_rows])],
                [self EXCEPT !.gravity_counter = 0, !.lock_delay_counter = 0])
    ELSE PlayMove(
            [self EXCEPT !.gravity_counter =
                self.gravity_counter + cfg.gravity
                + (IF InputContains(input, "SOFT_DROP")
                   THEN cfg.soft_drop_gravity ELSE 0)],
            d, cfg, fp)

\* Fault injection: a hold that keeps the replacement's kind in the hold slot.
PlayHoldKeepsKind(self, d, cfg, fp) ==
    LET self1 == [self EXCEPT !.is_piece_held = TRUE]
    IN  IF ~IsSome(d.hold_piece) /\ d.next_pieces = <<>>
        THEN Err(d, self1, "no next pieces")
        ELSE LET np == IF IsSome(d.hold_piece) THEN Unwrap(d.hold_piece)
                       ELSE Head(d.next_pieces)
                 d1 == IF IsSome(d.hold_piece) THEN d
                       ELSE [d EXCEPT !.next_pieces = Tail(d.next_pieces)]
                 sfp == SpawnPiece(np, d.playfield)
             IN  IF ~CanPutOnto(sfp, d.playfield)
                 THEN OkSome(d1, self1, GameStateGameOver)
                 ELSE OkNone([d1 EXCEPT !.hold_piece = Some(np),
                                        !.falling_piece = Some(sfp)],
                             [self1 EXCEPT !.gravity_counter = 0,
                                           !.lock_delay_counter = 0])

\* GameStatePlay::update, the part under "// HOLD", entered when the piece has
\* not been held yet and the debouncer hands out the HOLD trigger.
PlayHold(self, d, cfg, fp) ==
    LET self1 == [self EXCEPT !.is_piece_held = TRUE]
    IN  IF ~IsSome(d.hold_piece) /\ d.next_pieces = <<>>
        THEN Err(d, self1, "no next pieces")
        ELSE LET np == IF IsSome(d.hold_piece) THEN Unwrap(d.hold_piece)
                       ELSE Head(d.next_pieces)
                 d1 == IF IsSome(d.hold_piece) THEN d
                       ELSE [d EXCEPT !.next_pieces = Tail(d.next_pieces)]
                 sfp == SpawnPiece(np, d.playfield)
             IN  IF ~CanPutOnto(sfp, d.playfield)
                 THEN OkSome(d1, self1, GameStateGameOver)
                 ELSE OkNone([d1 EXCEPT !.hold_piece = Some(fp.piece),
                                        !.falling_piece = Some(sfp)],
                             [self1 EXCEPT !.gravity_counter = 0,
                                           !.lock_delay_counter = 0])

\* GameStatePlay::update
PlayUpdate(self, d, cfg, input, order) ==
    LET d0 == [d EXCEPT !.input_mgr = InputManagerUpdate(d.input_mgr, input, order)]
    IN  IF ~IsSome(d.falling_piece) THEN Panic(d0, self)
        ELSE LET fp == Unwrap(d.falling_piece)
                 num_droppable_rows == DroppableRows(fp, d.playfield)
                 hold == IF self.is_piece_held
                         THEN [mgr |-> d0.input_mgr, result |-> FALSE]
                         ELSE InputManagerHandle(d0.input_mgr, "HOLD")
                 d1 == [d0 EXCEPT !.input_mgr = hold.mgr]
             IN  IF InputContains(input, "HARD_DROP")
                 THEN OkSome([d0 EXCEPT !.falling_piece =
                                 Some([fp EXCEPT !.y = fp.y - num_droppable_rows])],
                             self, GameStateLock)
                 ELSE IF hold.result THEN PlayHold(self, d1, cfg, fp)
                 ELSE PlayOthers(self, d1, cfg, input, fp, num_droppable_rows)

\* self.state.update(&mut self.data, &self.config, input)
StateUpdate(self, d, cfg, input, order) ==
    CASE self.id = "Init"       -> InitUpdate(self, d, cfg, input)
      [] self.id = "Play"       -> PlayUpdate(self, d, cfg, input, order)
      [] self.id = "Lock"       -> LockUpdate(self, d, cfg, input)
      [] self.id = "LineClear"  -> LineClearUpdate(self, d, cfg, input)
      [] self.id = "SpawnPiece" -> SpawnPieceUpdate(self, d, cfg, input)
      [] OTHER                  -> DefaultUpdate(self, d, cfg, input, order)

\* self.state.enter(&mut self.data, &self.config)
StateEnter(self, d, cfg) ==
    IF self.id \in {"Play", "Lock"} THEN EnterWithPiece(self, d, cfg)
    ELSE DefaultEnter(self, d, cfg)

\* Game::handle_result: the game after the result r of update or enter;
\* chain lists the ids of the states self.state was assigned on the way.
RECURSIVE HandleResult(_, _)
HandleResult(r, cfg) ==
    CASE r.kind = "OkNone" -> [data |-> r.data, state |-> r.self,
                               panicked |-> FALSE, chain |-> <<>>]
      [] r.kind = "OkSome" ->
             [HandleResult(StateEnter(r.next, r.data, cfg), cfg)
                 EXCEPT !.chain = <<r.next.id>> \o @]
      [] r.kind = "Err"    -> [data |-> r.data, state |-> GameStateError(r.reason),
                               panicked |-> FALSE, chain |-> <<"Error">>]
      [] r.kind = "Panic"  -> [data |-> r.data, state |-> r.self,
                               panicked |-> TRUE, chain |-> <<>>]

\* Game::update: the game [data, state, panicked] after update(input).
GameUpdate(g, cfg, input, order) ==
    HandleResult(StateUpdate(g.state, g.data, cfg, input, order), cfg)

(***************************************************************************)
(* Specification Spec: Game::new on every initial config and data within   *)
(* the bounds, then Game::update with every input of Inputs, the HashMap   *)
(* of the debouncer yielding its entries in any order of VisitOrders.      *)
(***************************************************************************)
PfCols        == 4
PfRows        == 5
PfVisibleRows == 2
MaxGravity    == 2
MaxLockDelay  == 1

\* GameParams: the fields the engine reads, and whether the build checks
\* integer overflow.
Configs ==
    {[gravity |-> g, soft_drop_gravity |-> GravityOne, lock_delay |-> ld,
      lock_delay_cancel |-> TRUE, das |-> 2, arr |-> 1, are |-> 0,
      line_clear_delay |-> 1, loss_condition |-> {"LOCK_OUT", "GARBAGE_OUT"},
      overflow_checks |-> TRUE] :
        g \in {MaxGravity}, ld \in {MaxLockDelay}}

\* Playfield with Garbage in the given cells <<x, y>> and Empty elsewhere.
PlayfieldWith(garbage) ==
    [visible_rows |-> PfVisibleRows,
     grid |-> [num_cols |-> PfCols, num_rows |-> PfRows,
               cells |-> [i \in 1..(PfCols * PfRows) |->
                   IF <<(i - 1) % PfCols, (i - 1) \div PfCols>> \in garbage
                   THEN "Garbage" ELSE "Empty"]]]

\* The empty playfield; one whose spawn area is blocked; one with a stack
\* that reaches above the visible rows.
InitPlayfields ==
    {PlayfieldWith({}),
     PlayfieldWith({<<x, y>> : x \in 1..2, y \in PfVisibleRows..(PfRows - 1)}),
     PlayfieldWith({<<x, y>> : x \in 0..2, y \in 0..PfVisibleRows})}

InitPieces == {"T"}

\* The falling pieces the playfield can take: a piece of InitPieces as
\* spawned, or in its spawn column at the floor or above the visible rows.
InitFallingPieces(playfield) ==
    {fp \in {SpawnPiece(p, playfield) : p \in InitPieces}
            \cup {[SpawnPiece(p, playfield) EXCEPT !.y = y] :
                     p \in InitPieces, y \in {0 - 1, PfVisibleRows}} :
        CanPutOnto(fp, playfield)}

\* hold_piece and next_pieces
InitQueues ==
    {[hold_piece |-> None, next_pieces |-> <<>>],
     [hold_piece |-> None, next_pieces |-> <<"O">>]}

Inputs ==
    {{}} \cup {{INPUTS[i]} : i \in DOMAIN INPUTS}
         \cup {{"MOVE_LEFT", "ROTATE_CW"}}

\* Orders in which the HashMap of InputManager may yield its eight entries.
VisitOrders ==
    {INPUTS, [i \in DOMAIN INPUTS |-> INPUTS[Len(INPUTS) + 1 - i]]}

\* Game::new(config, data); the data built with new_input_manager(das, arr).
InitGame ==
    /\ IdleCtr /\ IdleGrid
    /\ config \in Configs
    /\ \E playfield \in InitPlayfields :
       \E falling_piece \in {None} \cup
                            {Some(fp) : fp \in InitFallingPieces(playfield)} :
       \E q \in InitQueues :
          data = [playfield |-> playfield, falling_piece |-> falling_piece,
                  hold_piece |-> q.hold_piece, next_pieces |-> q.next_pieces,
                  input_mgr |-> new_input_manager(config.das, config.arr)]
    /\ state = GameStateInit
    /\ panicked = FALSE
    /\ last = [input |-> {}, from |-> "new", chain |-> <<>>]

Init == InitGame /\ run2 = <<>>

\* game.update(input) on the game in config, data and state; nothing runs
\* after a panic.
Step(input, order) ==
    /\ ~panicked
    /\ \E g \in {GameUpdate([data |-> data, state |-> state], config, input, order)} :
           /\ data' = g.data
           /\ state' = g.state
           /\ panicked' = g.panicked
           /\ last' = [input |-> input, from |-> state.id, chain |-> g.chain]
    /\ UNCHANGED config

Update(input, order) == Step(input, order) /\ UNCHANGED run2

Next ==
    /\ \E input \in Inputs, order \in VisitOrders : Update(input, order)
    /\ UNCHANGED <<ctrVars, gridVars>>

Spec == Init /\ [][Next]_vars

\* The piece of a game in Play is present and can be put onto the playfield.
PieceFits ==
    /\ IsSome(data.falling_piece)
    /\ CanPutOnto(Unwrap(data.falling_piece), data.playfield)

\* C1: in every state whose state id is Play, observed after any Game.update
\* returns, a falling piece is present and can_put_onto(playfield) holds.
C1_PieceNeverOverlaps ==
    (state.id = "Play" /\ ~panicked) => PieceFits

\* C2: from a valid initial state no Game.update panics, whatever the inputs.
C2_NeverPanics == ~panicked

\* C4: once the state id is GameOver or Error, every Game.update, with any
\* input, leaves the state, the playfield, the falling piece, the hold piece,
\* next_pieces and the debouncer counters unchanged (and does not panic).
C4_TerminalInert ==
    [][state.id \in {"GameOver", "Error"} =>
          (state' = state /\ data' = data /\ panicked' = panicked)]_vars

C4_Witness ==
    /\ state.id = "GameOver" /\ last.from = "GameOver" /\ last.input = {"HOLD"}
    /\ data.input_mgr["HOLD"].state = "End"

(***************************************************************************)
(* Specification SpecTwin: two runs of the same game from the same config  *)
(* and data, fed the same inputs; in each update the HashMaps of the two   *)
(* runs yield their entries in different orders.                           *)
(***************************************************************************)
InitTwin ==
    /\ InitGame
    /\ run2 = [data |-> data, state |-> state, panicked |-> panicked]

TwinUpdate(input, order, order2) ==
    /\ Step(input, order)
    /\ ~run2.panicked
    /\ \E g \in {GameUpdate([data |-> run2.data, state |-> run2.state],
                              config, input, order2)} :
           run2' = [data |-> g.data, state |-> g.state, panicked |-> g.panicked]

NextTwin ==
    /\ \E input \in Inputs, order \in VisitOrders :
       \E order2 \in VisitOrders \ {order} : TwinUpdate(input, order, order2)
    /\ UNCHANGED <<ctrVars, gridVars>>

SpecTwin == InitTwin /\ [][NextTwin]_vars

\* C3: two runs from equal config and data fed the same inputs have equal
\* playfield, falling piece, hold piece, next_pieces, debouncer counters and
\* state after every update (and panic alike), whatever the orders in which
\* InputManager.update visits the counters in either run.
C3_Deterministic ==
    /\ run2.data.playfield = data.playfield
    /\ run2.data.falling_piece = data.falling_piece
    /\ run2.data.hold_piece = data.hold_piece
    /\ run2.data.next_pieces = data.next_pieces
    /\ run2.data.input_mgr = data.input_mgr
    /\ run2.state = state
    /\ run2.panicked = panicked

C3_Witness ==
    /\ state.id = "Play" /\ last.from = "Play"
    /\ last.input = {"MOVE_LEFT", "ROTATE_CW"}
    /\ data.input_mgr["MOVE_LEFT"].is_handled
    /\ data.input_mgr["ROTATE_CW"].is_handled
    /\ data.hold_piece = Some("T")

(***************************************************************************)
(* Specification SpecSpawn: the games of Spec that start with no falling   *)
(* piece, under the caller's frame loop, which calls Game::update again    *)
(* and again.                                                              *)
(***************************************************************************)
InitSpawn == Init /\ data.falling_piece = None

SpecSpawn == InitSpawn /\ [][Next]_vars /\ WF_vars(Next)

\* The engine is in SpawnPiece, next_pieces is q and the front of q can be
\* placed at its spawn position.
SpawnPending(q) ==
    /\ state.id = "SpawnPiece"
    /\ data.next_pieces = q
    /\ CanPutOnto(SpawnPiece(Head(q), data.playfield), data.playfield)

\* C12: from SpawnPiece with a non-empty next_pieces whose front piece can be
\* placed at its spawn position the engine reaches Play, whatever the inputs
\* are, with that piece taken off the queue and made the falling piece.
C12_SpawnReachesPlay ==
    \A q \in {iq.next_pieces : iq \in InitQueues} \ {<<>>} :
        SpawnPending(q) ~>
            (/\ state.id = "Play"
             /\ data.next_pieces = Tail(q)
             /\ IsSome(data.falling_piece)
             /\ Unwrap(data.falling_piece).piece = Head(q))

(***************************************************************************)
(* Specification SpecHold: games with a falling piece whose hold slot and  *)
(* queue cover a swap with the queue, a swap with the slot, a replacement  *)
(* that cannot be placed and no replacement at all.                        *)
(***************************************************************************)
\* kind of the falling piece, hold_piece and next_pieces of Game::new
HoldStarts ==
    {[piece |-> "I", hold_piece |-> None, next_pieces |-> <<"O">>],
     [piece |-> "T", hold_piece |-> Some("O"), next_pieces |-> <<"I">>],
     [piece |-> "T", hold_piece |-> None, next_pieces |-> <<>>]}

InitHold ==
    /\ IdleCtr /\ IdleGrid
    /\ config \in Configs
    /\ \E playfield \in InitPlayfields, h \in HoldStarts :
       \E y \in (0 - 2)..PfVisibleRows :
          /\ CanPutOnto([SpawnPiece(h.piece, playfield) EXCEPT !.y = y], playfield)
          /\ data = [playfield |-> playfield,
                     falling_piece |->
                         Some([SpawnPiece(h.piece, playfield) EXCEPT !.y = y]),
                     hold_piece |-> h.hold_piece, next_pieces |-> h.next_pieces,
                     input_mgr |-> new_input_manager(config.das, config.arr)]
    /\ state = GameStateInit
    /\ panicked = FALSE
    /\ last = [input |-> {}, from |-> "new", chain |-> <<>>]
    /\ run2 = <<>>

NextHold ==
    /\ \E input \in {{}, {"HOLD"}, {"HOLD", "HARD_DROP"}, {"MOVE_RIGHT"},
                      {"MOVE_LEFT"}, {"MOVE_LEFT", "MOVE_RIGHT"}} :
           Update(input, INPUTS)
    /\ UNCHANGED <<ctrVars, gridVars>>

SpecHold == InitHold /\ [][NextHold]_vars

\* The update with last'.input handles HOLD: the engine is in Play, HARD_DROP
\* does not pre-empt it, the piece has not been held and the debouncer hands
\* out the HOLD trigger.
HoldHandled ==
    /\ state.id = "Play" /\ ~panicked
    /\ ~InputContains(last'.input, "HARD_DROP")
    /\ ~state.is_piece_held
    /\ InputManagerHandle(InputManagerUpdate(data.input_mgr, last'.input, INPUTS),
                          "HOLD").result

\* The kind that replaces the falling piece: the held kind, else the front of
\* next_pieces, else none.
HoldReplacement ==
    IF IsSome(data.hold_piece) THEN data.hold_piece
    ELSE IF data.next_pieces # <<>> THEN Some(Head(data.next_pieces))
    ELSE None

HoldPlaceable ==
    /\ IsSome(HoldReplacement)
    /\ CanPutOnto(SpawnPiece(Unwrap(HoldReplacement), data.playfield),
                  data.playfield)

HoldSwapped ==
    /\ IsSome(HoldReplacement)
    /\ data'.hold_piece = Some(Unwrap(data.falling_piece).piece)
    /\ data'.falling_piece =
           Some(SpawnPiece(Unwrap(HoldReplacement), data.playfield))
    /\ data'.next_pieces = IF IsSome(data.hold_piece) THEN data.next_pieces
                           ELSE Tail(data.next_pieces)

\* An update in Play with HOLD in its input after the piece has been held.
LaterHold ==
    /\ state.id = "Play" /\ ~panicked
    /\ state.is_piece_held
    /\ InputContains(last'.input, "HOLD")

HoldIgnored ==
    /\ data'.hold_piece = data.hold_piece
    /\ data'.next_pieces = data.next_pieces
    /\ IsSome(data'.falling_piece)
    /\ Unwrap(data'.falling_piece).piece = Unwrap(data.falling_piece).piece

\* C13 as stated: every first handled HOLD of a lifetime in Play puts the
\* kind of the falling piece into the hold slot and makes the spawn of the
\* held kind (of the popped front of next_pieces when the slot was empty) the
\* falling piece; every later HOLD of the lifetime leaves the hold slot, the
\* kind of the falling piece and the queue alone.
C13_HoldAlwaysSwaps ==
    [][/\ HoldHandled => HoldSwapped
       /\ LaterHold => HoldIgnored]_vars

\* C13, amended: the first handled HOLD swaps as stated when a replacement
\* exists and its spawn can be put onto the playfield; otherwise the engine
\* leaves Play for Error (no replacement) or GameOver (replacement cannot be
\* placed) with the hold slot and the falling piece unchanged; every later
\* HOLD of the lifetime leaves the hold slot, the kind of the falling piece
\* and the queue alone.
C13_HoldSwaps ==
    [][/\ (HoldHandled /\ HoldPlaceable) => HoldSwapped
       /\ (HoldHandled /\ ~HoldPlaceable) =>
              /\ state'.id = IF IsSome(HoldReplacement) THEN "GameOver"
                             ELSE "Error"
              /\ data'.hold_piece = data.hold_piece
              /\ data'.falling_piece = data.falling_piece
       /\ LaterHold => HoldIgnored]_vars

\* The example of the claim: I falling, queue [O]; HOLD was handled and a
\* second update with HOLD has run since.
C13_Witness ==
    /\ state.id = "Play" /\ state.is_piece_held
    /\ last.from = "Play" /\ last.input = {"HOLD"}
    /\ data.hold_piece = Some("I")
    /\ Unwrap(data.falling_piece).piece = "O"
    /\ data.next_pieces = <<>>
    /\ data.falling_piece # Some(SpawnPiece("O", data.playfield))

\* C16: a handled HOLD in Play with an empty hold slot and an empty
\* next_pieces moves the engine to Error and leaves the playfield, the falling
\* piece, the hold slot and the (empty) queue unchanged.
C16_EmptyQueueHoldErrors ==
    [][(HoldHandled /\ ~IsSome(data.hold_piece) /\ data.next_pieces = <<>>) =>
          /\ state'.id = "Error"
          /\ ~panicked'
          /\ data'.playfield = data.playfield
          /\ data'.falling_piece = data.falling_piece
          /\ data'.hold_piece = data.hold_piece
          /\ data'.next_pieces = data.next_pieces]_vars

C16_Witness ==
    /\ state.id = "Error" /\ state.reason = "no next pieces"
    /\ last.from = "Play" /\ last.input = {"HOLD"}
    /\ data.hold_piece = None /\ data.next_pieces = <<>>
    /\ IsSome(data.falling_piece)

\* The edges between state ids the engine is meant to take.
AllowedEdges ==
    {<<"Init", "Play">>, <<"Init", "SpawnPiece">>,
     <<"SpawnPiece", "Play">>, <<"SpawnPiece", "GameOver">>,
     <<"Play", "Lock">>, <<"Play", "GameOver">>,
     <<"Lock", "LineClear">>, <<"Lock", "SpawnPiece">>, <<"Lock", "GameOver">>,
     <<"LineClear", "SpawnPiece">>}

\* C15: every change of state id made by Game::update is an edge of
\* AllowedEdges or leads into Error; Init goes to Play only with a falling
\* piece present and to SpawnPiece only with none; Init is never entered again.
C15_StateEdges ==
    [][state'.id # state.id =>
          /\ state'.id # "Init"
          /\ state'.id = "Error" \/ <<state.id, state'.id>> \in AllowedEdges
          /\ (state.id = "Init" /\ state'.id = "Play") =>
                 IsSome(data.falling_piece)
          /\ (state.id = "Init" /\ state'.id = "SpawnPiece") =>
                 ~IsSome(data.falling_piece)]_vars

\* Init -> Play -> Lock -> GameOver has been walked.
C15_Witness ==
    /\ state.id = "GameOver" /\ last.from = "Lock"
    /\ state.loss_cond # {}
    /\ IsSome(data.falling_piece)

(***************************************************************************)
(* Specification SpecPreset: the input manager new_input_manager builds    *)
(* from every (das, arr) within the bounds, one key held frame after       *)
(* frame: each frame the manager is updated and the key's trigger taken.   *)
(***************************************************************************)
MaxDas    == 3
MaxArr    == 2
MaxFrames == 8

InitPreset ==
    /\ IdleCtr /\ IdleGrid
    /\ config \in {[das |-> das, arr |-> arr] : das \in 1..MaxDas, arr \in 1..MaxArr}
    /\ data = [input_mgr |-> new_input_manager(config.das, config.arr)]
    /\ state = [frame |-> 0]
    /\ panicked = FALSE
    /\ \E key \in {"MOVE_LEFT", "MOVE_RIGHT", "HOLD"} :
           last = [key |-> key, fired |-> {}]
    /\ run2 = <<>>

\* One frame with last.key held: InputManager::update, then handle(key);
\* fired collects the frames on which handle returned true.
HoldKey ==
    /\ state.frame < MaxFrames
    /\ \E h \in {InputManagerHandle(
                     InputManagerUpdate(data.input_mgr, {last.key}, INPUTS),
                     last.key)} :
           /\ data' = [data EXCEPT !.input_mgr = h.mgr]
           /\ last' = [last EXCEPT !.fired =
                          IF h.result THEN @ \cup {state.frame + 1} ELSE @]
    /\ state' = [state EXCEPT !.frame = @ + 1]
    /\ UNCHANGED <<config, panicked, run2>>

NextPreset == HoldKey /\ UNCHANGED <<ctrVars, gridVars>>

SpecPreset == InitPreset /\ [][NextPreset]_vars

\* C20: the manager built from (das, arr) holds MOVE_LEFT and MOVE_RIGHT with
\* repeat = arr and first_delay = das and the other six keys with repeat = 0;
\* a held move key whose triggers are taken fires on frame 1, on frame
\* 1 + das and then every arr frames.
C20_HumanPreset ==
    /\ \A key \in {"MOVE_LEFT", "MOVE_RIGHT"} :
           /\ data.input_mgr[key].opt_repeat = config.arr
           /\ data.input_mgr[key].opt_first_delay = config.das
    /\ \A key \in InputKeys \ {"MOVE_LEFT", "MOVE_RIGHT"} :
           data.input_mgr[key].opt_repeat = 0
    /\ last.key \in {"MOVE_LEFT", "MOVE_RIGHT"} =>
           last.fired = {f \in 1..state.frame :
                            \/ f = 1
                            \/ /\ f >= 1 + config.das
                               /\ (f - 1 - config.das) % config.arr = 0}

(***************************************************************************)
(* Specification SpecLockDelay: a game on the empty playfield with a       *)
(* falling piece, updated with the empty input only, for lock delays at    *)
(* both ends of Frames (and the 60 of the guideline preset), with and      *)
(* without gravity, in a build with and without overflow checks.           *)
(* last.grounded counts the consecutive updates in Play that found         *)
(* num_droppable_rows == 0.                                                *)
(***************************************************************************)
LockDelays == {0, 1, 60, FramesMax}

LockDelayConfigs ==
    {[gravity |-> g, soft_drop_gravity |-> GravityOne, lock_delay |-> ld,
      lock_delay_cancel |-> TRUE, das |-> 2, arr |-> 1, are |-> 0,
      line_clear_delay |-> 1, loss_condition |-> {"LOCK_OUT", "GARBAGE_OUT"},
      overflow_checks |-> oc] :
        g \in {0, GravityOne}, ld \in LockDelays, oc \in BOOLEAN}

InitLockDelay ==
    /\ IdleCtr /\ IdleGrid
    /\ config \in LockDelayConfigs
    /\ \E fp \in InitFallingPieces(PlayfieldWith({})) :
          data = [playfield |-> PlayfieldWith({}), falling_piece |-> Some(fp),
                  hold_piece |-> None, next_pieces |-> <<"O">>,
                  input_mgr |-> new_input_manager(config.das, config.arr)]
    /\ state = GameStateInit
    /\ panicked = FALSE
    /\ last = [input |-> {}, from |-> "new", grounded |-> 0]
    /\ run2 = <<>>

\* game.update(Input::empty())
IdleUpdate ==
    /\ ~panicked
    /\ \E g \in {GameUpdate([data |-> data, state |-> state], config, {}, INPUTS)} :
           /\ data' = g.data
           /\ state' = g.state
           /\ panicked' = g.panicked
    /\ last' = [input |-> {}, from |-> state.id,
                grounded |->
                    IF /\ state.id = "Play"
                       /\ DroppableRows(Unwrap(data.falling_piece),
                                        data.playfield) = 0
                    THEN Min(last.grounded + 1, FramesMax + 2)
                    ELSE 0]
    /\ UNCHANGED <<config, run2>>

NextLockDelay == IdleUpdate /\ UNCHANGED <<ctrVars, gridVars>>

SpecLockDelay == InitLockDelay /\ [][NextLockDelay]_vars

\* C14: with no input, Play -> Lock is taken on exactly the
\* (lock_delay + 1)-th consecutive update that finds the piece grounded
\* (num_droppable_rows == 0): not earlier, and after that many grounded
\* updates the engine is not in Play any more and has not panicked; this for
\* every lock_delay of LockDelays.
C14_LockAfterDelay ==
    /\ (state.id = "Lock" /\ last.from = "Play") =>
           last.grounded = config.lock_delay + 1
    /\ (state.id = "Play" /\ last.from = "Play") =>
           last.grounded <= config.lock_delay
    /\ ~(panicked /\ state.id = "Play")

StateIds == {"Init", "Play", "Lock", "LineClear", "SpawnPiece", "GameOver", "Error"}

\* C21: the chain of states one Game::update walks through is bounded: it has
\* at most two links, two only as Init -> SpawnPiece -> Play; no link repeats
\* the state before it, and on the data of every reachable game no state's
\* enter hands back a state with its own id.
C21_BoundedChain ==
    /\ Len(last.chain) <= 2
    /\ Len(last.chain) = 2 =>
           last.from = "Init" /\ last.chain = <<"SpawnPiece", "Play">>
    /\ \A i \in 1..Len(last.chain) :
           last.chain[i] # (IF i = 1 THEN last.from ELSE last.chain[i - 1])
    /\ \A id \in StateIds :
           \E e \in {StateEnter(GameStateOf(id), data, config)} :
               e.kind = "OkSome" => e.next.id # id

\* Init -> Play has been walked in one call, enter included.
C21_Witness ==
    /\ last.from = "Init" /\ last.chain = <<"Play">>
    /\ state.id = "Play" /\ ~panicked

\* The falling piece one row lower.
OneRowLower(fp) == [fp EXCEPT !.y = fp.y - 1]

\* C23: for a falling piece that can be put onto the playfield,
\* droppable_rows is check_overlay_toward(x, y, grid, 0, -1).n - 1, the number
\* of rows the piece can descend before it collides; it is 0 for a piece at
\* rest on the floor or on blocks.
C23_DroppableRows ==
    (IsSome(data.falling_piece)
        /\ CanPutOnto(Unwrap(data.falling_piece), data.playfield)) =>
       \E fp \in {Unwrap(data.falling_piece)} :
          /\ DroppableRows(fp, data.playfield) =
                 CheckOverlayToward(data.playfield.grid, fp.x, fp.y, FpGrid(fp),
                                    0, 0 - 1).n - 1
          /\ \A k \in 0..DroppableRows(fp, data.playfield) :
                 CanPutOnto([fp EXCEPT !.y = fp.y - k], data.playfield)
          /\ ~CanPutOnto(OneRowLower(fp), data.playfield) =>
                 DroppableRows(fp, data.playfield) = 0

\* C22: an update in Play whose input holds HARD_DROP ends in Lock with the
\* piece at the same x and rotation, lowered by its droppable rows, where it
\* can be put onto the playfield and cannot one row lower; this whatever else
\* the input holds, the hold slot and the queue staying as they are.
C22_HardDrop ==
    [][(state.id = "Play" /\ ~panicked /\ InputContains(last'.input, "HARD_DROP")) =>
          \E fp \in {Unwrap(data.falling_piece)}, fp1 \in {Unwrap(data'.falling_piece)} :
             /\ state'.id = "Lock"
             /\ fp1.piece = fp.piece /\ fp1.x = fp.x /\ fp1.rotation = fp.rotation
             /\ fp1.y = fp.y - DroppableRows(fp, data.playfield)
             /\ CanPutOnto(fp1, data.playfield)
             /\ ~CanPutOnto(OneRowLower(fp1), data.playfield)
             /\ data'.hold_piece = data.hold_piece
             /\ data'.next_pieces = data.next_pieces]_vars

\* An update in Play that locks the piece before the lock delay has expired
\* (and not by a hard drop).
EarlyLock ==
    /\ state.id = "Play" /\ state'.id = "Lock"
    /\ ~InputContains(last'.input, "HARD_DROP")
    /\ state.lock_delay_counter + 1 <= config.lock_delay

\* C24: a piece is locked before the lock delay expires only when
\* lock_delay_cancel is set and SOFT_DROP is freshly pressed in that frame:
\* the input holds it and its debouncer counter was Inactive, so that this
\* update raises its one trigger; a SOFT_DROP held on from earlier frames
\* does not lock the piece.
C24_LockDelayCancel ==
    [][EarlyLock =>
          /\ config.lock_delay_cancel
          /\ InputContains(last'.input, "SOFT_DROP")
          /\ data.input_mgr["SOFT_DROP"].state = "Inactive"]_vars

\* The key's trigger was taken in the update that led to the primed state
\* (InputManager::update clears is_handled, handle sets it).
Handled(key) == data'.input_mgr[key].is_handled

\* The shift the update asks for: -1 for a handled MOVE_LEFT, else +1 for a
\* handled MOVE_RIGHT.
AskedShift == IF Handled("MOVE_LEFT") THEN 0 - 1 ELSE 1

\* C25: an update in Play that handles MOVE_LEFT shifts the piece by -1 in x,
\* one that handles MOVE_RIGHT (and not MOVE_LEFT) by +1, provided the
\* shifted piece can be put onto the playfield; otherwise x stays.  (Updates
\* that also handle a rotation, which may kick the piece sideways, are left
\* out.)
C25_HorizontalMove ==
    [][(/\ state.id = "Play" /\ state'.id = "Play" /\ ~panicked'
        /\ Handled("MOVE_LEFT") \/ Handled("MOVE_RIGHT")
        /\ ~Handled("ROTATE_CW") /\ ~Handled("ROTATE_CCW")) =>
          \E fp \in {Unwrap(data.falling_piece)} :
             Unwrap(data'.falling_piece).x =
                 IF CanPutOnto([fp EXCEPT !.x = fp.x + AskedShift], data.playfield)
                 THEN fp.x + AskedShift ELSE fp.x]_vars

\* The configured top-out flags whose predicate holds for the falling piece.
MatchedFlags ==
    {f \in config.loss_condition :
        \/ f = "LOCK_OUT" /\ IsLockOut(Unwrap(data.falling_piece), data.playfield)
        \/ f = "PARTIAL_LOCK_OUT"
             /\ IsPartialLockOut(Unwrap(data.falling_piece), data.playfield)}

\* C26: an update in Lock with a configured top-out flag whose predicate
\* holds ends in GameOver with the playfield unchanged, carrying matched
\* flags only; with no such flag it does not end in GameOver.
C26_TopOutReason ==
    [][state.id = "Lock" =>
          /\ MatchedFlags # {} =>
                 /\ state'.id = "GameOver"
                 /\ data'.playfield = data.playfield
                 /\ state'.loss_cond # {}
                 /\ state'.loss_cond \subseteq MatchedFlags
          /\ MatchedFlags = {} => state'.id # "GameOver"]_vars

\* C27: an update in Lock without top-out writes exactly the solid cells of
\* the falling piece into playfield cells that were empty and changes no
\* other cell; it ends in LineClear iff some row of [0, visible_rows) is
\* filled afterwards and in SpawnPiece otherwise.
C27_LockWritesPiece ==
    [][(state.id = "Lock" /\ ~panicked /\ MatchedFlags = {}) =>
          \E fp \in {Unwrap(data.falling_piece)}, g \in {data.playfield.grid},
             g1 \in {data'.playfield.grid} :
             /\ ~panicked'
             /\ \A c \in SolidCells(FpGrid(fp)) :
                    /\ ~OutOfGrid(g, fp.x + c[1], fp.y + c[2])
                    /\ IsEmpty(Cell(g, fp.x + c[1], fp.y + c[2]))
                    /\ Cell(g1, fp.x + c[1], fp.y + c[2]) =
                           Cell(FpGrid(fp), c[1], c[2])
             /\ \A x \in 0..(g.num_cols - 1), y \in 0..(g.num_rows - 1) :
                    <<x - fp.x, y - fp.y>> \notin SolidCells(FpGrid(fp)) =>
                        Cell(g1, x, y) = Cell(g, x, y)
             /\ state'.id =
                    IF \E y \in 0..(data.playfield.visible_rows - 1) :
                           IsRowFilled(g1, y)
                    THEN "LineClear" ELSE "SpawnPiece"]_vars

(***************************************************************************)
(* Specification SpecLineClear: GameStateLineClear as Lock hands it over   *)
(* (counter 0, the locked piece written into the playfield, a visible row  *)
(* filled), updated frame after frame, for line clear delays at both ends  *)
(* of Frames, in a build with and without overflow checks.                 *)
(* last.updates counts the updates made in LineClear, last.plucks those of *)
(* them that found counter == 0 and called pluck_filled_rows.              *)
(***************************************************************************)
InitLineClear ==
    /\ IdleCtr /\ IdleGrid
    /\ \E ld \in {0, 1, 2, FramesMax}, oc \in BOOLEAN :
          config = [gravity |-> GravityOne, soft_drop_gravity |-> GravityOne,
                    lock_delay |-> 1, lock_delay_cancel |-> TRUE,
                    das |-> 2, arr |-> 1, are |-> 0, line_clear_delay |-> ld,
                    loss_condition |-> {"LOCK_OUT", "GARBAGE_OUT"},
                    overflow_checks |-> oc]
    /\ \E top \in {{}, {<<0, 1>>}, {<<x, 1>> : x \in 0..(PfCols - 1)}} :
       \E fp \in InitFallingPieces(PlayfieldWith({})) :
          data = [playfield |->
                      PlayfieldWith({<<x, 0>> : x \in 0..(PfCols - 1)} \cup top),
                  falling_piece |-> Some(fp),
                  hold_piece |-> None, next_pieces |-> <<"O">>,
                  input_mgr |-> new_input_manager(config.das, config.arr)]
    /\ state = GameStateLineClear
    /\ panicked = FALSE
    /\ last = [input |-> {}, from |-> "Lock", updates |-> 0, plucks |-> 0]
    /\ run2 = <<>>

\* game.update(input) on the game in LineClear
LineClearFrame(input) ==
    /\ ~panicked
    /\ state.id = "LineClear"
    /\ \E g \in {GameUpdate([data |-> data, state |-> state], config, input, INPUTS)} :
           /\ data' = g.data
           /\ state' = g.state
           /\ panicked' = g.panicked
    /\ last' = [input |-> input, from |-> state.id,
                updates |-> Min(last.updates + 1, 2 * FramesMax + 4),
                plucks |-> IF state.counter = 0 THEN Min(last.plucks + 1, 2)
                           ELSE last.plucks]
    /\ UNCHANGED <<config, run2>>

NextLineClear ==
    /\ \E input \in {{}, {"MOVE_LEFT"}} : LineClearFrame(input)
    /\ UNCHANGED <<ctrVars, gridVars>>

SpecLineClear == InitLineClear /\ [][NextLineClear]_vars

Pumped ==
    \E u \in {InputManagerUpdate(data.input_mgr, last'.input, INPUTS)} :
        \A key \in InputKeys :
            data'.input_mgr[key] \in {u[key], InputCounterHandle(u[key]).counter}

\* C29: updates made in Play and in SpawnPiece pump the debouncer with the
\* raw input; updates made in Lock and in LineClear leave every counter of
\* the debouncer as it was, whatever the input.
C29_DebouncerPumping ==
    [][/\ (state.id \in {"Play", "SpawnPiece"} /\ ~panicked) => Pumped
       /\ state.id \in {"Lock", "LineClear"} =>
              data'.input_mgr = data.input_mgr]_vars

\* The playfield rows that hold a solid cell of the falling piece.
SolidRows(fp) == {fp.y + c[2] : c \in SolidCells(FpGrid(fp))}

\* C37: is_lock_out holds iff every solid cell of the falling piece lies in a
\* row >= visible_rows, and is_partial_lock_out holds iff at least one solid
\* cell of the falling piece lies in a row >= visible_rows.
C37_LockOutRows ==
    IsSome(data.falling_piece) =>
        LET fp == Unwrap(data.falling_piece)
        IN  /\ IsLockOut(fp, data.playfield) <=>
                  \A r \in SolidRows(fp) : r >= data.playfield.visible_rows
            /\ IsPartialLockOut(fp, data.playfield) <=>
                  \E r \in SolidRows(fp) : r >= data.playfield.visible_rows

\* The update just made was a frame of one Play instance: it started and
\* ended in Play without a panic.
PlayFrame == state.id = "Play" /\ state'.id = "Play" /\ ~panicked'

\* The frame made a successful HOLD.
FrameHeld == ~state.is_piece_held /\ state'.is_piece_held

\* The piece the frame would leave with the gravity switched off.
FrameWithoutGravity ==
    PlayUpdate([state EXCEPT !.gravity_counter = 0], data,
               [config EXCEPT !.gravity = 0, !.soft_drop_gravity = 0],
               last'.input, INPUTS).data.falling_piece

\* The piece went down in the frame, by FIRM_DROP or by gravity.
FrameDescended ==
    /\ ~FrameHeld
    /\ DroppableRows(Unwrap(data.falling_piece), data.playfield) # 0
    /\ \/ "FIRM_DROP" \in last'.input
       \/ data'.falling_piece # FrameWithoutGravity

\* C39: within one Play instance lock_delay_counter only changes by +1 on a
\* frame that starts grounded and by a reset to 0 on a successful HOLD, a
\* FIRM_DROP descent or a gravity descent; a frame without such a reset
\* (the piece only moves horizontally or rotates, or a move or rotation is
\* rejected) never resets or decreases it.
C39_LockDelayCounter ==
    [][PlayFrame =>
          LET c  == state.lock_delay_counter
              c2 == state'.lock_delay_counter
              grounded == DroppableRows(Unwrap(data.falling_piece),
                                        data.playfield) = 0
          IN  /\ c2 # c =>
                    \/ c2 = c + 1 /\ grounded
                    \/ c2 = 0 /\ (FrameHeld \/ FrameDescended)
              /\ ~(FrameHeld \/ FrameDescended) => c2 >= c]_vars

(***************************************************************************)
(* Specification SpecIter: Input::into_iter on every bitmask, then         *)
(* InputIterator::next called again and again until it returns None.  data *)
(* holds the iterator, last the items yielded so far (the first MaxYields  *)
(* of them), whether None has been returned, and whether the number of     *)
(* calls made is odd.                                                      *)
(***************************************************************************)
MaxYields == 3

\* InputIterator::next: [item |-> what is returned, next_idx |-> the index left
\* in the iterator]; next_idx counts from 0.
RECURSIVE InputIteratorNext(_, _)
InputIteratorNext(input, next_idx) ==
    IF next_idx < Len(INPUTS)
    THEN IF InputContains(input, INPUTS[next_idx + 1])
         THEN [item |-> Some(INPUTS[next_idx + 1]), next_idx |-> next_idx]
         ELSE InputIteratorNext(input, next_idx + 1)
    ELSE [item |-> None, next_idx |-> next_idx]

\* Input::into_iter / InputIterator::new
InitIter ==
    /\ IdleCtr /\ IdleGrid
    /\ config = <<>> /\ state = <<>> /\ run2 = <<>>
    /\ panicked = FALSE
    /\ \E input \in SUBSET InputKeys : data = [input |-> input, next_idx |-> 0]
    /\ last = [yielded |-> <<>>, done |-> FALSE, odd |-> FALSE]

\* One call of next() by the loop that drains the iterator.
NextIter ==
    /\ ~last.done
    /\ \E r \in {InputIteratorNext(data.input, data.next_idx)} :
          /\ data' = [data EXCEPT !.next_idx = r.next_idx]
          /\ last' = IF IsSome(r.item)
                     THEN [last EXCEPT !.odd = ~last.odd,
                                       !.yielded =
                              IF Len(last.yielded) < MaxYields
                              THEN Append(last.yielded, Unwrap(r.item))
                              ELSE last.yielded]
                     ELSE [last EXCEPT !.odd = ~last.odd, !.done = TRUE]
    /\ UNCHANGED <<config, state, panicked, run2, ctrVars, gridVars>>

SpecIter == InitIter /\ [][NextIter]_vars /\ WF_vars(NextIter)

\* The flags of the table INPUTS from index i on that are set in input.
RECURSIVE SetFlagsFrom(_, _)
SetFlagsFrom(input, i) ==
    IF i > Len(INPUTS) THEN <<>>
    ELSE (IF INPUTS[i] \in input THEN <<INPUTS[i]>> ELSE <<>>)
         \o SetFlagsFrom(input, i + 1)

\* C38: iterating an Input bitmask terminates for every bitmask: next()
\* eventually returns None, having yielded each set flag exactly once, in the
\* order of the table INPUTS.
C38_IterationTerminates ==
    <>(last.done /\ last.yielded = SetFlagsFrom(data.input, 1))

=============================================================================
